---- MODULE Spec2Model ----
(***************************************************************************)
(* A model of DeepSeeker's indexing core (src-tauri/src):                  *)
(*   - chunker.rs   MarkdownChunker, driven by the pulldown-cmark events    *)
(*   - commands.rs  index_directory (producer / consumer), the incremental  *)
(*                  update update_file_incremental                          *)
(*   - watcher.rs   DebounceState and the event loop of init_watcher        *)
(*                                                                         *)
(* Each part has its own specification over the one variable tuple; the    *)
(* variables of the other parts stay at their initial values.              *)
(***************************************************************************)
EXTENDS Integers, Sequences, FiniteSets, TLC

VARIABLES
    \* ---- chunker.rs: MarkdownChunker and the locals of chunk() ----
    ck_pc,                  \* position in the event stream: top / heading / headingText / code / done
    header_stack,           \* MarkdownChunker.header_stack
    current_chunk,          \* MarkdownChunker.current_chunk
    current_line,           \* MarkdownChunker.current_line
    chunk_start_line,       \* MarkdownChunker.chunk_start_line
    chunks,                 \* MarkdownChunker.chunks
    in_code_block,          \* local of chunk()
    code_block_content,     \* local of chunk()
    code_block_lang,        \* local of chunk()
    code_block_start_line,  \* local of chunk()
    \* ---- what the input was (history of the event stream) ----
    cur_depth,              \* level of the heading being read
    hist,                   \* headings closed so far: [depth, title]
    emit_hist,              \* per emitted chunk: Len(hist) when it was emitted
    bodies,                 \* bodies of the code blocks closed so far
    cur_body,               \* body of the code block being read
    n_events,               \* headings, code blocks and text events read so far
    \* ---- the file system and the Store (db.rs: tables documents and chunks) ----
    disk,                   \* path -> the text of the file, "absent" when there is none
    db_docs,                \* committed rows of documents
    db_chunks,              \* committed rows of chunks
    next_doc_id,            \* AUTOINCREMENT of documents.id
    next_chunk_id,          \* AUTOINCREMENT of chunks.id
    db_writes,              \* statements that changed documents or chunks so far
    model_ok,               \* whether EmbeddingModel::new() succeeds
    faults,                 \* failures of Store statements and embed_batch injected so far
    \* ---- commands.rs: index_directory ----
    ix_call,                \* 0: not called; 1, 2: the first, second call
    ix_pc,                  \* producer: file / delete / insert / send / join / done / failed
    ix_files,               \* files the producer has still to visit
    ix_cur,                 \* the file in hand: [path, doc_id, jobs]
    ix_processed,           \* the counter `processed`
    ix_chan,                \* the mpsc channel of ChunkJobs
    ix_tx_open,             \* the sender tx has not been dropped
    ix_lock,                \* holder of the Mutex around the connection
    cons_pc,                \* consumer: recv / embed / insert / done
    cons_buf,               \* chunk_buffer
    cons_embs,              \* embeddings of the batch, <<>> for None
    cons_i,                 \* rows of the batch inserted so far
    ix_snap,                \* what the first call left: [docs, chunks, writes, processed]
    \* ---- commands.rs: update_file_incremental; watcher.rs: update_file_sync ----
    up_pc,                  \* idle / embed / tx_delete / tx_doc / tx_chunk / tx_coll /
                            \* tx_commit / done / unchanged / removed / failed
    up_entry,               \* "command" (update_file_incremental) or "watcher" (update_file_sync)
    up_path,                \* file_path
    up_chunks,              \* contents of the chunks of the new text
    old_embeddings,         \* the map content hash -> embedding bytes
    chunks_needing_embeddings,
    chunk_embeddings,       \* per new chunk: the bytes to store, NULL for None
    up_i,                   \* chunks inserted so far in the transaction
    tx_docs,                \* documents as the open transaction sees it
    tx_chunks,              \* chunks as the open transaction sees it
    tx_ids,                 \* [doc, chunk]: the AUTOINCREMENT counters inside the transaction
    up_doc_id,              \* doc_id = tx.last_insert_rowid()
    embed_calls,            \* the inputs of the embed_batch calls made so far
    up_pre,                 \* the Store as it was when the update began: [docs, chunks]
    \* ---- watcher.rs: DebounceState, init_watcher ----
    w_now,                  \* the clock (Instant::now()), in ms
    pending_files,          \* DebounceState.pending_files: path -> time of the last event
    w_thr,                  \* the spawned check threads: [path, pc, wake, text, olds]
    w_events,               \* the times of the create/modify events handled so far
    w_dispatched,           \* how many times should_process returned true
    \* ---- db.rs: the schema with its triggers, cleanup_ghost_data; delete_collection ----
    db_collections,         \* the ids of the rows of collections
    db_fts,                 \* the rows of chunks_fts: [rowid, content, metadata]
    st_ops,                 \* statements, file removals and cleanup calls so far
    st_last,                \* the last statement, and how many chunks its cascade took
    cg_pc,                  \* cleanup_ghost_data: idle / loop / done / failed
    cg_docs,                \* docs: the (id, path) pairs it selected, those still to visit
    cg_deleted,             \* deleted
    cg_pre,                 \* the numbers of rows and the missing paths when the call began
    cg_quiet,               \* calls returned Ok in a row with nothing else in between
    \* ---- search.rs: search_hybrid ----
    sr_pc,                  \* idle / hybrid / fallback / embed / done
    sr_rows,                \* the chunks that MATCH the query: chunk id -> [rank, emb]
    sr_limit,               \* limit
    bm25_results,           \* what bm25_search_only returned: <<[chunk_id, score]>>
    sr_result,              \* what search_hybrid returned: [ok, hits]
    \* ---- search.rs: f32_vec_to_bytes / bytes_to_f32_vec ----
    cd_pc,                  \* idle / serialized / done
    cd_vec,                 \* the vector given to f32_vec_to_bytes
    cd_bytes,               \* the bytes it returned
    cd_back,                \* what bytes_to_f32_vec returned for them
    \* ---- commands.rs: get_chunk_context ----
    cx_pc,                  \* idle / queried / done
    cx_store,               \* the chunk rows of the Store: [chunk_id, doc_id, start_line]
    cx_args,                \* [doc_id, start_line, context_size]
    all_chunks,             \* the rows of the document, ORDER BY start_line
    cx_result,               \* the chunks returned
    \* ---- commands.rs / watcher.rs: the early returns of the incremental update ----
    rt_pc,                  \* idle / hash / replace / ignored / unchanged / removed / done / failed
    rt_entry,               \* "command" (update_file_incremental) or "watcher" (update_file_sync)
    rt_path,                \* file_path, as its characters
    rt_folder,              \* folder_path of the collection: <<>> (None) or <<folder>>
    rt_coll,                \* collection_id found for the file: <<>> or <<id>>
    rt_embeds,              \* calls of embed_batch so far
    rt_pre,                  \* the Store as it was when the update began
    \* ---- pdf_parser.rs: extraction and chunk_pdf_text; the PDF arm of update_file_sync ----
    pdf_pc,                 \* idle / extracted / done
    pdf_text,               \* the text layer pdf_extract returns, as segments
    pdf_pages,              \* page_count
    pdf_status,             \* the PdfStatus returned: [tag, text, page_count]
    pdf_doc                 \* what the ingestion path makes of it: [content, chunks, status]

chunkerVars == <<ck_pc, header_stack, current_chunk, current_line, chunk_start_line,
                 chunks, in_code_block, code_block_content, code_block_lang,
                 code_block_start_line, cur_depth, hist, emit_hist, bodies,
                 cur_body, n_events>>

storeVars == <<disk, db_docs, db_chunks, next_doc_id, next_chunk_id, db_writes,
               model_ok, faults>>

indexVars == <<ix_call, ix_pc, ix_files, ix_cur, ix_processed, ix_chan, ix_tx_open,
               ix_lock, cons_pc, cons_buf, cons_embs, cons_i, ix_snap>>

updateVars == <<up_pc, up_entry, up_path, up_chunks, old_embeddings,
                chunks_needing_embeddings, chunk_embeddings, up_i, tx_docs, tx_chunks,
                tx_ids, up_doc_id, embed_calls, up_pre>>

watcherVars == <<w_now, pending_files, w_thr, w_events, w_dispatched>>

schemaVars == <<db_collections, db_fts, st_ops, st_last, cg_pc, cg_docs, cg_deleted,
                cg_pre, cg_quiet>>

searchVars == <<sr_pc, sr_rows, sr_limit, bm25_results, sr_result>>

codecVars == <<cd_pc, cd_vec, cd_bytes, cd_back>>

contextVars == <<cx_pc, cx_store, cx_args, all_chunks, cx_result>>

routeVars == <<rt_pc, rt_entry, rt_path, rt_folder, rt_coll, rt_embeds, rt_pre>>

pdfVars == <<pdf_pc, pdf_text, pdf_pages, pdf_status, pdf_doc>>

vars == <<chunkerVars, storeVars, indexVars, updateVars, watcherVars, schemaVars,
          searchVars, codecVars, contextVars,
          routeVars,
          pdfVars>>

\* what the steps of one part leave alone
notChunker == <<storeVars, indexVars, updateVars, watcherVars, schemaVars, searchVars,
    codecVars, contextVars,
    routeVars,
    pdfVars>>
notIndex == <<chunkerVars, updateVars, watcherVars, schemaVars, searchVars,
    codecVars, contextVars,
    routeVars,
    pdfVars>>
notUpdate == <<chunkerVars, indexVars, watcherVars, schemaVars, searchVars,
    codecVars, contextVars,
    routeVars,
    pdfVars>>
notWatcher == <<chunkerVars, indexVars, updateVars, schemaVars, searchVars,
    codecVars, contextVars,
    routeVars,
    pdfVars>>
notSchema == <<chunkerVars, indexVars, updateVars, watcherVars, searchVars,
    codecVars, contextVars,
    routeVars,
    pdfVars>>
notSearch == <<chunkerVars, indexVars, updateVars, watcherVars, schemaVars,
    codecVars, contextVars,
    routeVars,
    pdfVars>>
notCodec == <<chunkerVars, storeVars, indexVars, updateVars, watcherVars, schemaVars,
    searchVars, contextVars,
    routeVars,
    pdfVars>>
notContext == <<chunkerVars, storeVars, indexVars, updateVars, watcherVars, schemaVars,
    searchVars, codecVars,
    routeVars,
    pdfVars>>
notRoute == <<chunkerVars, indexVars, updateVars, watcherVars,
    schemaVars, searchVars, codecVars, contextVars,
    pdfVars>>
notPdf == <<chunkerVars, storeVars, indexVars, updateVars, watcherVars,
    schemaVars, searchVars, codecVars, contextVars, routeVars>>

(***************************************************************************)
(* Strings.  A string is a sequence of segments; a segment stands for a    *)
(* run of characters of a fixed byte length.  "nl" is a newline (white     *)
(* space); every other segment starts and ends with a non-blank character. *)
(***************************************************************************)
SegLen(s) ==
    CASE s = "nl"  -> 1       \* "\n"
      [] s = "w"   -> 60      \* a short sentence
      [] s = "W"   -> 600     \* a long paragraph
      [] s = "c"   -> 30      \* a line of code
      [] s = "C"   -> 1200    \* a long run of code
      [] s = "code_span" -> 3       \* an inline code span with its backticks
      [] OTHER     -> 5       \* a heading title

IsWs(s) == s = "nl"

Newlines(s) == IF s = "nl" THEN 1 ELSE 0

RECURSIVE StrLen(_)
StrLen(str) == IF str = <<>> THEN 0 ELSE SegLen(Head(str)) + StrLen(Tail(str))

RECURSIVE TrimStart(_)
TrimStart(str) ==
    IF str = <<>> THEN <<>>
    ELSE IF IsWs(Head(str)) THEN TrimStart(Tail(str)) ELSE str

RECURSIVE TrimEnd(_)
TrimEnd(str) ==
    IF str = <<>> THEN <<>>
    ELSE IF IsWs(str[Len(str)]) THEN TrimEnd(SubSeq(str, 1, Len(str) - 1)) ELSE str

\* str::trim
Trim(str) == TrimEnd(TrimStart(str))

\* Vec::truncate: keeps the first n elements, a no-op when the vector is shorter
Truncate(v, n) == IF Len(v) > n THEN SubSeq(v, 1, n) ELSE v

MAX_CHUNK_SIZE == 1000
MIN_CHUNK_SIZE == 100

\* bounds of the event streams explored
MaxDepth == 3
MaxEvents == 5

\* the k-th heading of the document has the title TitleNames[k]: titles are distinct
TitleNames == <<"h1", "h2", "h3", "h4", "h5", "h6", "h7", "h8">>

Langs == {"none", "rust"}

(***************************************************************************)
(* chunker.rs: MarkdownChunker                                             *)
(***************************************************************************)
ChunkerNew ==
    /\ header_stack = <<>>
    /\ current_chunk = <<>>
    /\ current_line = 1
    /\ chunk_start_line = 1
    /\ chunks = <<>>

ChunkerIdle ==
    /\ ChunkerNew
    /\ ck_pc = "done"
    /\ in_code_block = FALSE
    /\ code_block_content = <<>>
    /\ code_block_lang = "none"
    /\ code_block_start_line = 0
    /\ cur_depth = 0
    /\ hist = <<>>
    /\ emit_hist = <<>>
    /\ bodies = <<>>
    /\ cur_body = <<>>
    /\ n_events = 0

ChunkerStart ==
    /\ ChunkerNew
    /\ ck_pc = "top"
    /\ in_code_block = FALSE
    /\ code_block_content = <<>>
    /\ code_block_lang = "none"
    /\ code_block_start_line = 0
    /\ cur_depth = 0
    /\ hist = <<>>
    /\ emit_hist = <<>>
    /\ bodies = <<>>
    /\ cur_body = <<>>
    /\ n_events = 0

ChunkInfo(content, type, lang, first, last) ==
    [content |-> content, headers |-> header_stack, chunk_type |-> type,
     language |-> lang, start_line |-> first, end_line |-> last]

\* flush_chunk without the minimum size: every non-blank buffer becomes a chunk
flush_chunkNoMin(buf, chunk_type) ==
    IF Trim(buf) # <<>>
    THEN Append(chunks, ChunkInfo(Trim(buf), chunk_type, "none", chunk_start_line, current_line))
    ELSE chunks

\* flush_chunk: the value of self.chunks after flushing buffer buf
flush_chunk(buf, chunk_type) ==
    IF StrLen(Trim(buf)) >= MIN_CHUNK_SIZE
    THEN Append(chunks, ChunkInfo(Trim(buf), chunk_type, "none", chunk_start_line, current_line))
    ELSE chunks

\* the history entry of a chunk list that may have grown by one chunk
Emitted(newChunks) ==
    IF Len(newChunks) > Len(chunks) THEN Append(emit_hist, Len(hist)) ELSE emit_hist

\* Event::Start(Tag::Heading { level, .. })
HeadingStart(d) ==
    /\ UNCHANGED notChunker
    /\ ck_pc = "top"
    /\ n_events < MaxEvents
    /\ chunks' = flush_chunk(current_chunk, "text")
    /\ emit_hist' = Emitted(chunks')
    /\ current_chunk' = <<>>
    /\ chunk_start_line' = current_line
    /\ header_stack' = Truncate(header_stack, d - 1)
    /\ cur_depth' = d
    /\ ck_pc' = "heading"
    /\ n_events' = n_events + 1
    /\ UNCHANGED <<current_line, in_code_block, code_block_content, code_block_lang,
                   code_block_start_line, hist, bodies, cur_body>>

\* the header stack after Event::End(TagEnd::Heading(level))
HeadingEndStack(stack, depth, header_text) ==
    Append(IF Len(stack) >= depth THEN Truncate(stack, depth - 1) ELSE stack, header_text)

\* Event::End(TagEnd::Heading(level))
HeadingEnd ==
    /\ UNCHANGED notChunker
    /\ ck_pc = "headingText"
    /\ header_stack' = HeadingEndStack(header_stack, cur_depth, Trim(current_chunk))
    /\ current_chunk' = <<>>
    /\ hist' = Append(hist, [depth |-> cur_depth, title |-> Trim(current_chunk)])
    /\ ck_pc' = "top"
    /\ UNCHANGED <<current_line, chunk_start_line, chunks, in_code_block,
                   code_block_content, code_block_lang, code_block_start_line,
                   cur_depth, emit_hist, bodies, cur_body, n_events>>

\* Event::Start(Tag::CodeBlock(kind)); lang is "none" for an indented block or an
\* empty info string
CodeBlockStart(lang) ==
    /\ UNCHANGED notChunker
    /\ ck_pc = "top"
    /\ n_events < MaxEvents
    /\ chunks' = flush_chunk(current_chunk, "text")
    /\ emit_hist' = Emitted(chunks')
    /\ current_chunk' = <<>>
    /\ chunk_start_line' = current_line
    /\ in_code_block' = TRUE
    /\ code_block_start_line' = current_line
    /\ code_block_content' = <<>>
    /\ code_block_lang' = lang
    /\ cur_body' = <<>>
    /\ ck_pc' = "code"
    /\ n_events' = n_events + 1
    /\ UNCHANGED <<header_stack, current_line, cur_depth, hist, bodies>>

\* a chunker that also applies the size limit to code: a block longer than
\* MAX_CHUNK_SIZE is cut after its first segment
CodeBlockChunksSplit(content) ==
    IF Trim(content) = <<>> THEN <<>>
    ELSE IF StrLen(Trim(content)) > MAX_CHUNK_SIZE
    THEN <<ChunkInfo(<<Head(Trim(content))>>, "code", code_block_lang, code_block_start_line, current_line),
           ChunkInfo(Tail(Trim(content)), "code", code_block_lang, code_block_start_line, current_line)>>
    ELSE <<ChunkInfo(Trim(content), "code", code_block_lang, code_block_start_line, current_line)>>

\* the chunks pushed at Event::End(TagEnd::CodeBlock)
CodeBlockChunks(content) ==
    IF Trim(content) # <<>>
    THEN <<ChunkInfo(Trim(content), "code", code_block_lang, code_block_start_line, current_line)>>
    ELSE <<>>

\* Event::End(TagEnd::CodeBlock)
CodeBlockEnd ==
    /\ UNCHANGED notChunker
    /\ ck_pc = "code"
    /\ chunks' = chunks \o CodeBlockChunks(code_block_content)
    /\ emit_hist' = emit_hist \o [i \in 1..(Len(chunks') - Len(chunks)) |-> Len(hist)]
    /\ in_code_block' = FALSE
    /\ code_block_content' = <<>>
    /\ code_block_lang' = "none"
    /\ chunk_start_line' = current_line + 1
    /\ bodies' = Append(bodies, cur_body)
    /\ cur_body' = <<>>
    /\ ck_pc' = "top"
    /\ UNCHANGED <<header_stack, current_chunk, current_line, code_block_start_line,
                   cur_depth, hist, n_events>>

\* Event::Text(text): the handler, for a text of one segment
TextHandler(seg) ==
    /\ IF in_code_block
       THEN /\ code_block_content' = Append(code_block_content, seg)
            /\ UNCHANGED <<current_chunk, chunks, chunk_start_line, emit_hist>>
       ELSE /\ UNCHANGED code_block_content
            /\ IF StrLen(Append(current_chunk, seg)) > MAX_CHUNK_SIZE
               THEN /\ chunks' = flush_chunk(Append(current_chunk, seg), "text")
                    /\ emit_hist' = Emitted(chunks')
                    /\ current_chunk' = <<>>
                    /\ chunk_start_line' = current_line
               ELSE /\ current_chunk' = Append(current_chunk, seg)
                    /\ UNCHANGED <<chunks, chunk_start_line, emit_hist>>
    /\ current_line' = current_line + Newlines(seg)

\* a Text event inside a heading: its title
HeadingText ==
    /\ UNCHANGED notChunker
    /\ ck_pc = "heading"
    /\ TextHandler(TitleNames[Len(hist) + 1])
    /\ ck_pc' = "headingText"
    /\ UNCHANGED <<header_stack, in_code_block, code_block_lang, code_block_start_line,
                   cur_depth, hist, bodies, cur_body, n_events>>

\* a Text event inside a paragraph
ParagraphText(seg) ==
    /\ UNCHANGED notChunker
    /\ ck_pc = "top"
    /\ n_events < MaxEvents
    /\ TextHandler(seg)
    /\ n_events' = n_events + 1
    /\ UNCHANGED <<ck_pc, header_stack, in_code_block, code_block_lang,
                   code_block_start_line, cur_depth, hist, bodies, cur_body>>

\* a Text event inside a code block
CodeText(seg) ==
    /\ UNCHANGED notChunker
    /\ ck_pc = "code"
    /\ n_events < MaxEvents
    /\ TextHandler(seg)
    /\ cur_body' = Append(cur_body, seg)
    /\ n_events' = n_events + 1
    /\ UNCHANGED <<ck_pc, header_stack, in_code_block, code_block_lang,
                   code_block_start_line, cur_depth, hist, bodies>>

\* Event::SoftBreak | Event::HardBreak (the parser emits them inside paragraphs)
Break ==
    /\ UNCHANGED notChunker
    /\ ck_pc = "top"
    /\ n_events < MaxEvents
    /\ IF in_code_block
       THEN /\ code_block_content' = Append(code_block_content, "nl")
            /\ UNCHANGED current_chunk
       ELSE /\ current_chunk' = Append(current_chunk, "nl")
            /\ UNCHANGED code_block_content
    /\ current_line' = current_line + 1
    /\ n_events' = n_events + 1
    /\ UNCHANGED <<ck_pc, header_stack, chunk_start_line, chunks, in_code_block,
                   code_block_lang, code_block_start_line, cur_depth, hist, emit_hist,
                   bodies, cur_body>>

\* Event::Code(code): an inline code span
InlineCode ==
    /\ UNCHANGED notChunker
    /\ ck_pc = "top"
    /\ n_events < MaxEvents
    /\ current_chunk' = Append(current_chunk, "code_span")
    /\ n_events' = n_events + 1
    /\ UNCHANGED <<ck_pc, header_stack, current_line, chunk_start_line, chunks,
                   in_code_block, code_block_content, code_block_lang,
                   code_block_start_line, cur_depth, hist, emit_hist, bodies, cur_body>>

\* the end of the event stream: the final flush of chunk()
EndOfInput ==
    /\ UNCHANGED notChunker
    /\ ck_pc = "top"
    /\ chunks' = flush_chunk(current_chunk, "text")
    /\ emit_hist' = Emitted(chunks')
    /\ current_chunk' = <<>>
    /\ chunk_start_line' = current_line
    /\ ck_pc' = "done"
    /\ UNCHANGED <<header_stack, current_line, in_code_block, code_block_content,
                   code_block_lang, code_block_start_line, cur_depth, hist, bodies,
                   cur_body, n_events>>

ChunkerNext ==
    \/ \E d \in 1..MaxDepth : HeadingStart(d)
    \/ HeadingText
    \/ HeadingEnd
    \/ \E lang \in Langs : CodeBlockStart(lang)
    \/ \E seg \in {"c", "C", "nl"} : CodeText(seg)
    \/ CodeBlockEnd
    \/ \E seg \in {"w", "W"} : ParagraphText(seg)
    \/ Break
    \/ InlineCode
    \/ EndOfInput


(***************************************************************************)
(* The file system and the Store                                           *)
(***************************************************************************)
\* bounds
MaxFiles == 2
MaxFaults == 1
BatchSize == 2      \* BATCH_SIZE of index_directory, scaled down from 128

PathNames == <<"/docs/a.md", "/docs/b.md", "/docs/c.md", "/docs/d.md">>
Files == [i \in 1..MaxFiles |-> PathNames[i]]
Paths == {Files[i] : i \in 1..MaxFiles}

\* SQL NULL in the embedding column
NULL == <<>>

\* chunk_markdown / chunk_pdf_text: the contents of the chunks of a file text.
\* "A" and "B" share the chunk "intro"; "E" is too short to give any chunk; "U" is
\* not valid UTF-8 (fs::read_to_string fails).
ChunksOf(text) ==
    CASE text = "A" -> <<"intro", "alpha">>
      [] text = "B" -> <<"intro", "beta", "intro">>
      [] OTHER      -> <<>>

Readable(text) == text \notin {"U", "absent"}

\* hex(SHA-256(bytes)): injective on the texts of the model
Sha256(bytes) == <<"sha256", bytes>>

\* An f32 is its 32 bits, written <<high 16 bits, low 16 bits>>.
ContentCode(content) ==
    CASE content = "intro" -> 1
      [] content = "alpha" -> 2
      [] content = "beta"  -> 3
      [] OTHER             -> 4

\* EmbeddingModel::embed_batch, for one text: the vector the loaded model gives it
Embed(content) == << <<16256, ContentCode(content)>> >>

\* the vector the model file of an earlier run gave it
EmbedOld(content) == << <<16128, ContentCode(content)>> >>

\* f32::to_le_bytes: the least significant byte first
to_le_bytes(f) == <<(f[2] % 256), (f[2] \div 256), (f[1] % 256), (f[1] \div 256)>>

\* the four bytes read with the most significant byte first
from_be_bytes(arr) == <<arr[2] + (256 * arr[1]), arr[4] + (256 * arr[3])>>

\* f32::from_le_bytes
from_le_bytes(arr) == <<arr[3] + (256 * arr[4]), arr[1] + (256 * arr[2])>>

\* search::f32_vec_to_bytes: flat_map(|f| f.to_le_bytes())
f32_vec_to_bytes(vec) ==
    [i \in 1..(4 * Len(vec)) |-> to_le_bytes(vec[((i - 1) \div 4) + 1])[((i - 1) % 4) + 1]]

\* search::bytes_to_f32_vec: chunks_exact(4), a rest of fewer than 4 bytes is dropped
bytes_to_f32_vec(bytes) ==
    [k \in 1..(Len(bytes) \div 4) |-> from_le_bytes(SubSeq(bytes, (4 * k) - 3, 4 * k))]

EmbedBytes(content) == f32_vec_to_bytes(Embed(content))

\* the bytes an earlier run stored for a chunk: none, those the model gives now,
\* or those of a model file that has been replaced since
StoredBytes(kind, content) ==
    CASE kind = "null" -> NULL
      [] kind = "old"  -> f32_vec_to_bytes(EmbedOld(content))
      [] OTHER         -> EmbedBytes(content)

Doc(id, path, text) ==
    [id |-> id, collection_id |-> 1, path |-> path, hash |-> Sha256(text), status |-> "normal"]

ChunkRow(id, doc_id, content, embedding) ==
    [id |-> id, doc_id |-> doc_id, content |-> content, embedding |-> embedding]

\* DELETE FROM documents WHERE collection_id = ? AND path = ?, with ON DELETE CASCADE
DocsAt(coll, path) == {d \in db_docs : d.collection_id = coll /\ d.path = path}
DocsAfterDelete(coll, path) == db_docs \ DocsAt(coll, path)
ChunksAfterDelete(coll, path) ==
    {c \in db_chunks : \A d \in DocsAt(coll, path) : c.doc_id # d.id}

\* the same query with the comparison of the hash negated: an unchanged file does
\* not match its own row
ExistsOtherHash(coll, path, hash) ==
    \E d \in db_docs : d.collection_id = coll /\ d.path = path /\ d.hash # hash

\* SELECT COUNT(*) > 0 FROM documents WHERE collection_id = ? AND path = ? AND hash = ?
ExistsSameHash(coll, path, hash) ==
    \E d \in db_docs : d.collection_id = coll /\ d.path = path /\ d.hash = hash

StoreIdle ==
    /\ disk = [p \in Paths |-> "absent"]
    /\ db_docs = {}
    /\ db_chunks = {}
    /\ next_doc_id = 1
    /\ next_chunk_id = 1
    /\ db_writes = 0
    /\ model_ok = FALSE
    /\ faults = 0

(***************************************************************************)
(* commands.rs: index_directory                                            *)
(***************************************************************************)
\* WatcherState::new: no pending file, no check thread
NoTime == -1

WatcherIdle ==
    /\ w_now = 0
    /\ pending_files = [p \in Paths |-> NoTime]
    /\ w_thr = <<>>
    /\ w_events = <<>>
    /\ w_dispatched = 0

\* the parts of the Store that only the schema-level statements follow
NoStmt == [op |-> "none", cascaded |-> 0]
NoCall == [ndocs |-> 0, nchunks |-> 0, absent |-> {}]

SchemaIdle ==
    /\ db_collections = {1}
    /\ db_fts = {}
    /\ st_ops = 0
    /\ st_last = NoStmt
    /\ cg_pc = "idle"
    /\ cg_docs = <<>>
    /\ cg_deleted = 0
    /\ cg_pre = NoCall
    /\ cg_quiet = 0

\* no query running
NoResult == [ok |-> TRUE, hits |-> <<>>]

SearchIdle ==
    /\ sr_pc = "idle"
    /\ sr_rows = <<>>
    /\ sr_limit = 0
    /\ bm25_results = <<>>
    /\ sr_result = NoResult

\* no conversion running
CodecIdle ==
    /\ cd_pc = "idle"
    /\ cd_vec = <<>>
    /\ cd_bytes = <<>>
    /\ cd_back = <<>>

NoArgs == [doc_id |-> 0, start_line |-> 0, context_size |-> 0]

\* no get_chunk_context running
ContextIdle ==
    /\ cx_pc = "idle"
    /\ cx_store = {}
    /\ cx_args = NoArgs
    /\ all_chunks = <<>>
    /\ cx_result = <<>>

NoPre == [docs |-> {}, chunks |-> {}]

NoStatus == [tag |-> "none", text |-> <<>>, page_count |-> 0]
NoDoc == [content |-> <<>>, chunks |-> <<>>, status |-> "none"]

\* no PDF being extracted
PdfIdle ==
    /\ pdf_pc = "idle"
    /\ pdf_text = <<>>
    /\ pdf_pages = 0
    /\ pdf_status = NoStatus
    /\ pdf_doc = NoDoc

\* no incremental update under way (the model of its early returns)
RouteIdle ==
    /\ rt_pc = "idle"
    /\ rt_entry = "command"
    /\ rt_path = <<>>
    /\ rt_folder = <<>>
    /\ rt_coll = <<>>
    /\ rt_embeds = 0
    /\ rt_pre = NoPre

UpdateIdle ==
    /\ up_pc = "idle"
    /\ up_entry = "command"
    /\ up_path = ""
    /\ up_chunks = <<>>
    /\ old_embeddings = <<>>
    /\ chunks_needing_embeddings = <<>>
    /\ chunk_embeddings = <<>>
    /\ up_i = 0
    /\ tx_docs = {}
    /\ tx_chunks = {}
    /\ tx_ids = [doc |-> 0, chunk |-> 0]
    /\ up_doc_id = 0
    /\ embed_calls = <<>>
    /\ up_pre = NoPre

NoFile == [path |-> "", doc_id |-> 0, jobs |-> <<>>]
NoSnap == [docs |-> {}, chunks |-> {}, writes |-> 0, processed |-> 0]

IndexIdle ==
    /\ ix_call = 0
    /\ ix_pc = "done"
    /\ ix_files = <<>>
    /\ ix_cur = NoFile
    /\ ix_processed = 0
    /\ ix_chan = <<>>
    /\ ix_tx_open = FALSE
    /\ ix_lock = "free"
    /\ cons_pc = "done"
    /\ cons_buf = <<>>
    /\ cons_embs = <<>>
    /\ cons_i = 0
    /\ ix_snap = NoSnap

\* the directory walk: the md / markdown / pdf files of the tree, in walk order
Discovered == SelectSeq(Files, LAMBDA p : disk[p] # "absent")

\* the start of index_directory: the walk, the channel, the consumer thread
IndexCallStart ==
    /\ ix_files = Discovered
    /\ ix_pc = "file"
    /\ ix_cur = NoFile
    /\ ix_processed = 0
    /\ ix_chan = <<>>
    /\ ix_tx_open = TRUE
    /\ ix_lock = "free"
    /\ cons_pc = "recv"
    /\ cons_buf = <<>>
    /\ cons_embs = <<>>
    /\ cons_i = 0

\* a Store as an earlier run of the program left it: per path no document, or the
\* document of an earlier text with all its chunks; emb[p] gives the kind of bytes
\* stored for the document and the chunks that were stored without embedding
OldStore(old, emb) ==
    LET idx(p) == CHOOSE i \in 1..MaxFiles : Files[i] = p
        base(p) == (idx(p) - 1) * 3
        bytes(p, k) == StoredBytes(IF k \in emb[p].nulls THEN "null" ELSE emb[p].kind,
                                   ChunksOf(old[p])[k])
    IN  /\ db_docs = {Doc(idx(p), p, old[p]) : p \in {q \in Paths : old[q] # "absent"}}
        /\ db_chunks = UNION {
              {ChunkRow(base(p) + k, idx(p), ChunksOf(old[p])[k], bytes(p, k))
                 : k \in 1..Len(ChunksOf(old[p]))}
              : p \in {q \in Paths : old[q] # "absent"}}
        /\ next_doc_id = MaxFiles + 1
        /\ next_chunk_id = 3 * MaxFiles + 1

AllEmbedded == [kind |-> "same", nulls |-> {}]

IndexInit ==
    /\ ChunkerIdle
    /\ UpdateIdle
    /\ WatcherIdle
    /\ SchemaIdle
    /\ SearchIdle
    /\ CodecIdle
    /\ ContextIdle
    /\ PdfIdle
    /\ RouteIdle
    /\ disk \in [Paths -> {"A", "B", "E", "U"}]
    /\ \E old \in [Paths -> {"absent", "B"}] : OldStore(old, [p \in Paths |-> AllEmbedded])
    /\ db_writes = 0
    /\ model_ok \in BOOLEAN
    /\ faults = 0
    /\ ix_call = 1
    /\ IndexCallStart
    /\ ix_snap = NoSnap

\* a Store statement or an embedding call fails: at most MaxFaults times in a run
MayFail(failed) == failed => faults < MaxFaults
Count(failed) == faults' = IF failed THEN faults + 1 ELSE faults

\* early return of index_directory through `?`: tx and the guard are dropped
ReturnErr ==
    /\ ix_pc' = "failed"
    /\ ix_tx_open' = FALSE
    /\ ix_lock' = "free"

\* producer, lines 278-350: read and chunk the file, hash it, take the lock, and
\* test whether the document is already stored with this hash
ProducerCheck ==
    /\ UNCHANGED notIndex
    /\ ix_pc = "file"
    /\ ix_files # <<>>
    /\ ix_lock = "free"
    /\ LET path == Head(ix_files)
           text == disk[path]
       IN  /\ ix_files' = Tail(ix_files)
           /\ IF ~Readable(text)
              THEN /\ ReturnErr
                   /\ UNCHANGED <<ix_cur, ix_processed>>
              ELSE IF ExistsSameHash(1, path, Sha256(text))
              THEN /\ ix_processed' = ix_processed + 1
                   /\ UNCHANGED <<ix_pc, ix_cur, ix_lock, ix_tx_open>>
              ELSE /\ ix_cur' = [path |-> path, doc_id |-> 0, jobs |-> <<>>]
                   /\ ix_pc' = "delete"
                   /\ ix_lock' = "producer"
                   /\ UNCHANGED <<ix_processed, ix_tx_open>>
    /\ UNCHANGED <<disk, db_docs, db_chunks, next_doc_id, next_chunk_id, db_writes,
                   model_ok, faults, ix_call, ix_chan, cons_pc, cons_buf, cons_embs,
                   cons_i, ix_snap>>

\* producer, lines 352-357: DELETE the old version of the document
ProducerDelete(failed) ==
    /\ UNCHANGED notIndex
    /\ ix_pc = "delete"
    /\ MayFail(failed)
    /\ Count(failed)
    /\ IF failed
       THEN /\ ReturnErr
            /\ UNCHANGED <<db_docs, db_chunks, db_writes>>
       ELSE /\ db_docs' = DocsAfterDelete(1, ix_cur.path)
            /\ db_chunks' = ChunksAfterDelete(1, ix_cur.path)
            /\ db_writes' = db_writes + Cardinality(DocsAt(1, ix_cur.path))
            /\ ix_pc' = "insert"
            /\ UNCHANGED <<ix_tx_open, ix_lock>>
    /\ UNCHANGED <<disk, next_doc_id, next_chunk_id, model_ok, ix_call, ix_files, ix_cur,
                   ix_processed, ix_chan, cons_pc, cons_buf, cons_embs, cons_i, ix_snap>>

\* the ChunkJobs of a document, the last chunk first
JobsReversed(doc_id, contents) ==
    [k \in 1..Len(contents) |->
        [doc_id |-> doc_id, chunk_idx |-> k, content |-> contents[Len(contents) + 1 - k]]]

\* the ChunkJobs of a document: (doc_id, chunk_idx, chunk)
Jobs(doc_id, contents) ==
    [k \in 1..Len(contents) |-> [doc_id |-> doc_id, chunk_idx |-> k, content |-> contents[k]]]

\* producer, lines 359-369: INSERT the document row, release the lock
ProducerInsert(failed) ==
    /\ UNCHANGED notIndex
    /\ ix_pc = "insert"
    /\ MayFail(failed)
    /\ Count(failed)
    /\ IF failed
       THEN /\ ReturnErr
            /\ UNCHANGED <<db_docs, db_writes, next_doc_id, ix_cur>>
       ELSE /\ db_docs' = db_docs \cup {Doc(next_doc_id, ix_cur.path, disk[ix_cur.path])}
            /\ db_writes' = db_writes + 1
            /\ next_doc_id' = next_doc_id + 1
            /\ ix_cur' = [ix_cur EXCEPT !.doc_id = next_doc_id,
                                        !.jobs = Jobs(next_doc_id, ChunksOf(disk[ix_cur.path]))]
            /\ ix_pc' = "send"
            /\ ix_lock' = "free"
            /\ UNCHANGED ix_tx_open
    /\ UNCHANGED <<disk, db_chunks, next_chunk_id, model_ok, ix_call, ix_files,
                   ix_processed, ix_chan, cons_pc, cons_buf, cons_embs, cons_i, ix_snap>>

\* producer, lines 371-394: send the chunks one by one, then count the file
ProducerSend ==
    /\ UNCHANGED notIndex
    /\ ix_pc = "send"
    /\ IF ix_cur.jobs # <<>>
       THEN /\ ix_chan' = Append(ix_chan, Head(ix_cur.jobs))
            /\ ix_cur' = [ix_cur EXCEPT !.jobs = Tail(ix_cur.jobs)]
            /\ UNCHANGED <<ix_pc, ix_processed>>
       ELSE /\ ix_processed' = ix_processed + 1
            /\ ix_pc' = "file"
            /\ UNCHANGED <<ix_chan, ix_cur>>
    /\ UNCHANGED <<storeVars, ix_call, ix_files, ix_tx_open, ix_lock, cons_pc, cons_buf,
                   cons_embs, cons_i, ix_snap>>

\* producer, lines 397-402: drop(tx) and wait for the consumer
ProducerClose ==
    /\ UNCHANGED notIndex
    /\ ix_pc = "file"
    /\ ix_files = <<>>
    /\ ix_tx_open' = FALSE
    /\ ix_pc' = "join"
    /\ UNCHANGED <<storeVars, ix_call, ix_files, ix_cur, ix_processed, ix_chan, ix_lock,
                   cons_pc, cons_buf, cons_embs, cons_i, ix_snap>>

\* producer, lines 402-431: the consumer has been joined; update the collection row
\* and return Ok(IndexProgress)
ProducerFinish(failed) ==
    /\ UNCHANGED notIndex
    /\ ix_pc = "join"
    /\ cons_pc = "done"
    /\ ix_lock = "free"
    /\ MayFail(failed)
    /\ Count(failed)
    /\ ix_pc' = IF failed THEN "failed" ELSE "done"
    /\ UNCHANGED <<disk, db_docs, db_chunks, next_doc_id, next_chunk_id, db_writes,
                   model_ok, ix_call, ix_files, ix_cur, ix_processed, ix_chan, ix_tx_open,
                   ix_lock, cons_pc, cons_buf, cons_embs, cons_i, ix_snap>>

\* the consumer ending at the closed channel without a last process_chunk_batch
ConsumerRecvNoFlush ==
    /\ UNCHANGED notIndex
    /\ cons_pc = "recv"
    /\ IF ix_chan # <<>>
       THEN /\ cons_buf' = Append(cons_buf, Head(ix_chan))
            /\ ix_chan' = Tail(ix_chan)
            /\ cons_pc' = IF Len(cons_buf') >= BatchSize THEN "embed" ELSE "recv"
       ELSE /\ ~ix_tx_open
            /\ cons_pc' = "done"
            /\ UNCHANGED <<cons_buf, ix_chan>>
    /\ UNCHANGED <<storeVars, ix_call, ix_pc, ix_files, ix_cur, ix_processed, ix_tx_open,
                   ix_lock, cons_embs, cons_i, ix_snap>>

\* consumer, lines 238-272: rx.recv()
ConsumerRecv ==
    /\ UNCHANGED notIndex
    /\ cons_pc = "recv"
    /\ IF ix_chan # <<>>
       THEN /\ cons_buf' = Append(cons_buf, Head(ix_chan))
            /\ ix_chan' = Tail(ix_chan)
            /\ cons_pc' = IF Len(cons_buf') >= BatchSize THEN "embed" ELSE "recv"
       ELSE /\ ~ix_tx_open
            /\ cons_pc' = IF cons_buf # <<>> THEN "embed" ELSE "done"
            /\ UNCHANGED <<cons_buf, ix_chan>>
    /\ UNCHANGED <<storeVars, ix_call, ix_pc, ix_files, ix_cur, ix_processed, ix_tx_open,
                   ix_lock, cons_embs, cons_i, ix_snap>>

\* after a batch: back to recv, or the end of the thread once the channel is closed
\* and drained (the final batch)
AfterBatch == IF ix_chan = <<>> /\ ~ix_tx_open /\ Len(cons_buf) < BatchSize THEN "done" ELSE "recv"

\* process_chunk_batch returning the error of embed_batch: the batch is not inserted
ConsumerEmbedDrops(failed) ==
    /\ UNCHANGED notIndex
    /\ cons_pc = "embed"
    /\ MayFail(failed)
    /\ Count(failed)
    /\ cons_embs' = IF model_ok /\ ~failed
                    THEN [k \in 1..Len(cons_buf) |-> EmbedBytes(cons_buf[k].content)]
                    ELSE <<>>
    /\ cons_i' = 0
    /\ cons_pc' = IF failed THEN AfterBatch ELSE "insert"
    /\ cons_buf' = IF failed THEN <<>> ELSE cons_buf
    /\ UNCHANGED <<disk, db_docs, db_chunks, next_doc_id, next_chunk_id, db_writes,
                   model_ok, ix_call, ix_pc, ix_files, ix_cur, ix_processed, ix_chan,
                   ix_tx_open, ix_lock, ix_snap>>

\* process_chunk_batch, lines 447-465: one embed_batch call for the whole buffer
ConsumerEmbed(failed) ==
    /\ UNCHANGED notIndex
    /\ cons_pc = "embed"
    /\ MayFail(failed)
    /\ Count(failed)
    /\ cons_embs' = IF model_ok /\ ~failed
                    THEN [k \in 1..Len(cons_buf) |-> EmbedBytes(cons_buf[k].content)]
                    ELSE <<>>
    /\ cons_i' = 0
    /\ cons_pc' = "insert"
    /\ UNCHANGED <<disk, db_docs, db_chunks, next_doc_id, next_chunk_id, db_writes,
                   model_ok, ix_call, ix_pc, ix_files, ix_cur, ix_processed, ix_chan,
                   ix_tx_open, ix_lock, cons_buf, ix_snap>>

\* process_chunk_batch, lines 467-493: under the lock, INSERT the rows one by one;
\* the first failure abandons the rest of the batch
ConsumerInsert(failed) ==
    /\ UNCHANGED notIndex
    /\ cons_pc = "insert"
    /\ ix_lock \in {"free", "consumer"}
    /\ MayFail(failed)
    /\ Count(failed)
    /\ IF failed
       THEN /\ cons_buf' = <<>>
            /\ cons_pc' = AfterBatch
            /\ ix_lock' = "free"
            /\ UNCHANGED <<db_chunks, next_chunk_id, db_writes, cons_i>>
       ELSE /\ db_chunks' = db_chunks \cup
                  {ChunkRow(next_chunk_id, cons_buf[cons_i + 1].doc_id,
                            cons_buf[cons_i + 1].content,
                            IF cons_i + 1 <= Len(cons_embs) THEN cons_embs[cons_i + 1] ELSE NULL)}
            /\ next_chunk_id' = next_chunk_id + 1
            /\ db_writes' = db_writes + 1
            /\ cons_i' = cons_i + 1
            /\ IF cons_i + 1 = Len(cons_buf)
               THEN /\ cons_buf' = <<>>
                    /\ cons_pc' = AfterBatch
                    /\ ix_lock' = "free"
               ELSE /\ ix_lock' = "consumer"
                    /\ UNCHANGED <<cons_buf, cons_pc>>
    /\ UNCHANGED <<disk, db_docs, next_doc_id, model_ok, ix_call, ix_pc, ix_files, ix_cur,
                   ix_processed, ix_chan, ix_tx_open, cons_embs, ix_snap>>

\* index_directory is called again after the first call returned Ok
SecondCall ==
    /\ UNCHANGED notIndex
    /\ ix_call = 1
    /\ ix_pc = "done"
    /\ ix_call' = 2
    /\ ix_snap' = [docs |-> db_docs, chunks |-> db_chunks, writes |-> db_writes,
                   processed |-> ix_processed]
    /\ ix_files' = Discovered
    /\ ix_pc' = "file"
    /\ ix_cur' = NoFile
    /\ ix_processed' = 0
    /\ ix_chan' = <<>>
    /\ ix_tx_open' = TRUE
    /\ ix_lock' = "free"
    /\ cons_pc' = "recv"
    /\ cons_buf' = <<>>
    /\ cons_embs' = <<>>
    /\ cons_i' = 0
    /\ UNCHANGED storeVars

IndexNext ==
    \/ ProducerCheck
    \/ \E failed \in BOOLEAN : ProducerDelete(failed)
    \/ \E failed \in BOOLEAN : ProducerInsert(failed)
    \/ ProducerSend
    \/ ProducerClose
    \/ \E failed \in BOOLEAN : ProducerFinish(failed)
    \/ ConsumerRecv
    \/ \E failed \in BOOLEAN : ConsumerEmbed(failed)
    \/ \E failed \in BOOLEAN : ConsumerInsert(failed)
    \/ SecondCall

SpecIndex == IndexInit /\ [][IndexNext]_vars

\* the steps of the thread that runs index_directory, and those of the consumer
\* thread it spawns
ProducerStep ==
    \/ ProducerCheck
    \/ \E failed \in BOOLEAN : ProducerDelete(failed)
    \/ \E failed \in BOOLEAN : ProducerInsert(failed)
    \/ ProducerSend
    \/ ProducerClose
    \/ \E failed \in BOOLEAN : ProducerFinish(failed)

ConsumerStep ==
    \/ ConsumerRecv
    \/ \E failed \in BOOLEAN : ConsumerEmbed(failed)
    \/ \E failed \in BOOLEAN : ConsumerInsert(failed)

\* both are operating-system threads: each one that can take a step takes one
SpecIndexFair == SpecIndex /\ WF_vars(ProducerStep) /\ WF_vars(ConsumerStep)


(***************************************************************************)
(* commands.rs: update_file_incremental; watcher.rs: update_file_sync      *)
(***************************************************************************)
\* a file was indexed (or not), by a model that is still there or not, with some of
\* its chunks stored without embedding; then the file was edited or removed
UpdateInit ==
    /\ ChunkerIdle
    /\ IndexIdle
    /\ UpdateIdle
    /\ WatcherIdle
    /\ SchemaIdle
    /\ SearchIdle
    /\ CodecIdle
    /\ ContextIdle
    /\ PdfIdle
    /\ RouteIdle
    /\ disk \in [Paths -> {"A", "B", "E", "absent"}]
    /\ \E old \in [Paths -> {"absent", "A", "B"}] :
       \E emb \in [Paths -> [kind : {"same", "old"}, nulls : SUBSET (1..3)]] :
          /\ \A p \in Paths : emb[p].nulls \subseteq 1..Len(ChunksOf(old[p]))
          /\ \A p \in Paths : p # Files[1] => (emb[p] = AllEmbedded /\ disk[p] = old[p])
          /\ OldStore(old, emb)
    /\ db_writes = 0
    /\ model_ok \in BOOLEAN
    /\ faults = 0

\* SELECT content, embedding FROM chunks WHERE doc_id = (SELECT id FROM documents
\* WHERE collection_id = ? AND path = ?)
OldChunkRows(coll, path) ==
    {c \in db_chunks : \E d \in DocsAt(coll, path) : c.doc_id = d.id}

\* old_embeddings: content hash -> embedding bytes, from the old rows that have an
\* embedding (a later row replaces an earlier one with the same content)
OldEmbeddings(rows) ==
    [h \in {Sha256(c.content) : c \in {r \in rows : r.embedding # NULL}} |->
        LET same == {c \in rows : c.embedding # NULL /\ Sha256(c.content) = h}
            last == CHOOSE c \in same : \A o \in same : o.id <= c.id
        IN  last.embedding]

\* the texts of the new chunks to embed: every chunk, whatever the old rows hold
NeedsEmbeddingAll(contents, olds) == contents

\* chunks_needing_embeddings: the texts of the new chunks whose content hash is not
\* a key of old_embeddings, in order
NeedsEmbedding(contents, olds) ==
    SelectSeq(contents, LAMBDA c : Sha256(c) \notin DOMAIN olds)

\* the mapping back with the fresh embeddings preferred to the old ones
MapEmbeddingsFreshFirst(contents, olds, some, vecs) ==
    [i \in 1..Len(contents) |->
        LET j == Len(NeedsEmbeddingAll(SubSeq(contents, 1, i), olds))
        IN  IF some /\ j <= Len(vecs) THEN f32_vec_to_bytes(vecs[j])
            ELSE IF Sha256(contents[i]) \in DOMAIN olds THEN olds[Sha256(contents[i])]
            ELSE NULL]

\* the mapping back with the fresh vectors taken at the index of the chunk instead
\* of the running index new_embedding_idx
MapEmbeddingsByChunkIndex(contents, olds, some, vecs) ==
    [i \in 1..Len(contents) |->
        IF Sha256(contents[i]) \in DOMAIN olds THEN olds[Sha256(contents[i])]
        ELSE IF some /\ i <= Len(vecs) THEN f32_vec_to_bytes(vecs[i]) ELSE NULL]

\* lines 804-825: per new chunk the old bytes when its hash is in old_embeddings,
\* else the next fresh vector (new_embeddings = Some(vecs)), else None
MapEmbeddings(contents, olds, some, vecs) ==
    [i \in 1..Len(contents) |->
        IF Sha256(contents[i]) \in DOMAIN olds THEN olds[Sha256(contents[i])]
        ELSE LET j == Len(NeedsEmbedding(SubSeq(contents, 1, i), olds))
             IN  IF some /\ j <= Len(vecs) THEN f32_vec_to_bytes(vecs[j]) ELSE NULL]

\* lines 602-778: the file is gone, unchanged, or read, chunked and compared with
\* the old rows of its document
UpdateStart(entry, path, failed) ==
    /\ UNCHANGED notUpdate
    /\ up_pc = "idle"
    /\ MayFail(failed)
    /\ Count(failed)
    /\ up_entry' = entry
    /\ up_path' = path
    /\ up_pre' = [docs |-> db_docs, chunks |-> db_chunks]
    /\ IF disk[path] = "absent"
       THEN \* the command routes to handle_file_removal, the watcher returns Ok
            /\ IF entry = "command" /\ ~failed
               THEN /\ db_docs' = {d \in db_docs : d.path # path}
                    /\ db_chunks' = {c \in db_chunks :
                                        \A d \in db_docs : d.path = path => c.doc_id # d.id}
                    /\ db_writes' = db_writes + Cardinality({d \in db_docs : d.path = path})
               ELSE UNCHANGED <<db_docs, db_chunks, db_writes>>
            /\ up_pc' = IF entry = "watcher" THEN "unchanged"
                        ELSE IF failed THEN "failed" ELSE "removed"
            /\ UNCHANGED <<up_chunks, old_embeddings, chunks_needing_embeddings>>
       ELSE /\ UNCHANGED <<db_docs, db_chunks, db_writes>>
            /\ IF failed
               THEN /\ up_pc' = "failed"
                    /\ UNCHANGED <<up_chunks, old_embeddings, chunks_needing_embeddings>>
               ELSE IF ExistsSameHash(1, path, Sha256(disk[path]))
               THEN /\ up_pc' = "unchanged"
                    /\ UNCHANGED <<up_chunks, old_embeddings, chunks_needing_embeddings>>
               ELSE /\ up_chunks' = ChunksOf(disk[path])
                    /\ old_embeddings' = OldEmbeddings(OldChunkRows(1, path))
                    /\ chunks_needing_embeddings' =
                           NeedsEmbedding(ChunksOf(disk[path]), old_embeddings')
                    /\ up_pc' = "embed"
    /\ UNCHANGED <<disk, next_doc_id, next_chunk_id, model_ok, chunk_embeddings, up_i,
                   tx_docs, tx_chunks, tx_ids, up_doc_id, embed_calls>>

\* lines 780-828: one embed_batch call for the chunks that need one, the mapping of
\* the embeddings back to the chunks, and the start of the transaction
UpdateEmbed(failed) ==
    /\ UNCHANGED notUpdate
    /\ up_pc = "embed"
    /\ MayFail(failed)
    /\ Count(failed)
    /\ LET called == chunks_needing_embeddings # <<>> /\ model_ok
           some == called /\ ~failed
           vecs == [j \in 1..Len(chunks_needing_embeddings) |->
                       Embed(chunks_needing_embeddings[j])]
       IN  /\ failed => called
           /\ embed_calls' = IF called THEN Append(embed_calls, chunks_needing_embeddings)
                             ELSE embed_calls
           /\ chunk_embeddings' = MapEmbeddings(up_chunks, old_embeddings, some, vecs)
    /\ tx_docs' = db_docs
    /\ tx_chunks' = db_chunks
    /\ tx_ids' = [doc |-> next_doc_id, chunk |-> next_chunk_id]
    /\ up_pc' = "tx_delete"
    /\ UNCHANGED <<disk, db_docs, db_chunks, next_doc_id, next_chunk_id, db_writes,
                   model_ok, up_entry, up_path, up_chunks, old_embeddings,
                   chunks_needing_embeddings, up_i, up_doc_id, up_pre>>

\* what the Store holds once the transaction is dropped without commit, were the
\* statements executed so far to stay
TxDroppedKeepsWork(committed, working) == working

\* a `?` return between conn.transaction() and tx.commit() drops the Transaction,
\* which rolls back: the Store holds what was committed before
TxDropped(committed, working) == committed

\* an error after conn.transaction(): the function returns Err, tx is dropped
TxFail ==
    /\ db_docs' = TxDropped(db_docs, tx_docs)
    /\ db_chunks' = TxDropped(db_chunks, tx_chunks)
    /\ next_doc_id' = TxDropped(next_doc_id, tx_ids.doc)
    /\ next_chunk_id' = TxDropped(next_chunk_id, tx_ids.chunk)
    /\ up_pc' = "failed"
    /\ UNCHANGED <<tx_docs, tx_chunks, tx_ids, up_i, up_doc_id>>

UpdateFrame ==
    /\ UNCHANGED notUpdate
    /\ UNCHANGED <<disk, db_writes, model_ok, up_entry, up_path, up_chunks, old_embeddings,
                   chunks_needing_embeddings, chunk_embeddings, embed_calls, up_pre>>

TxKeepsStore == UNCHANGED <<db_docs, db_chunks, next_doc_id, next_chunk_id>>

\* DELETE FROM documents WHERE collection_id = ? AND path = ? (chunks by CASCADE)
TxDelete(failed) ==
    /\ UpdateFrame
    /\ up_pc = "tx_delete"
    /\ MayFail(failed)
    /\ Count(failed)
    /\ IF failed THEN TxFail
       ELSE /\ tx_docs' = {d \in tx_docs : ~(d.collection_id = 1 /\ d.path = up_path)}
            /\ tx_chunks' = {c \in tx_chunks : \A d \in tx_docs :
                                (d.collection_id = 1 /\ d.path = up_path) => c.doc_id # d.id}
            /\ up_pc' = "tx_doc"
            /\ TxKeepsStore
            /\ UNCHANGED <<tx_ids, up_i, up_doc_id>>

\* INSERT INTO documents ...; doc_id = tx.last_insert_rowid()
TxInsertDoc(failed) ==
    /\ UpdateFrame
    /\ up_pc = "tx_doc"
    /\ MayFail(failed)
    /\ Count(failed)
    /\ IF failed THEN TxFail
       ELSE /\ tx_docs' = tx_docs \cup {Doc(tx_ids.doc, up_path, disk[up_path])}
            /\ up_doc_id' = tx_ids.doc
            /\ tx_ids' = [tx_ids EXCEPT !.doc = @ + 1]
            /\ up_i' = 0
            /\ up_pc' = IF up_chunks = <<>> THEN "tx_end" ELSE "tx_chunk"
            /\ TxKeepsStore
            /\ UNCHANGED tx_chunks

\* one turn of the loop: INSERT INTO chunks ... with embedding_blob = chunk_embeddings[idx]
TxInsertChunk(failed) ==
    /\ UpdateFrame
    /\ up_pc = "tx_chunk"
    /\ MayFail(failed)
    /\ Count(failed)
    /\ IF failed THEN TxFail
       ELSE /\ tx_chunks' = tx_chunks \cup
                  {ChunkRow(tx_ids.chunk, up_doc_id, up_chunks[up_i + 1],
                            chunk_embeddings[up_i + 1])}
            /\ tx_ids' = [tx_ids EXCEPT !.chunk = @ + 1]
            /\ up_i' = up_i + 1
            /\ up_pc' = IF up_i + 1 = Len(up_chunks) THEN "tx_end" ELSE "tx_chunk"
            /\ TxKeepsStore
            /\ UNCHANGED <<tx_docs, up_doc_id>>

\* UPDATE collections SET updated_at (update_file_incremental only), then tx.commit()
TxCommit(failed) ==
    /\ UNCHANGED notUpdate
    /\ up_pc = "tx_end"
    /\ MayFail(failed)
    /\ Count(failed)
    /\ IF failed
       THEN TxFail /\ UNCHANGED db_writes
       ELSE /\ db_docs' = tx_docs
            /\ db_chunks' = tx_chunks
            /\ next_doc_id' = tx_ids.doc
            /\ next_chunk_id' = tx_ids.chunk
            /\ db_writes' = db_writes + 1
            /\ up_pc' = "done"
            /\ UNCHANGED <<tx_docs, tx_chunks, tx_ids, up_i, up_doc_id>>
    /\ UNCHANGED <<disk, model_ok, up_entry, up_path, up_chunks, old_embeddings,
                   chunks_needing_embeddings, chunk_embeddings, embed_calls, up_pre>>

UpdateNext ==
    \/ \E entry \in {"command", "watcher"} : \E failed \in BOOLEAN :
          UpdateStart(entry, Files[1], failed)
    \/ \E failed \in BOOLEAN : UpdateEmbed(failed)
    \/ \E failed \in BOOLEAN : TxDelete(failed)
    \/ \E failed \in BOOLEAN : TxInsertDoc(failed)
    \/ \E failed \in BOOLEAN : TxInsertChunk(failed)
    \/ \E failed \in BOOLEAN : TxCommit(failed)

SpecUpdate == UpdateInit /\ [][UpdateNext]_vars

(***************************************************************************)
(* watcher.rs: DebounceState and the event loop of init_watcher            *)
(***************************************************************************)
DebounceMs == 500       \* WatcherState::new: DebounceState::new(500)
SleepMs == 550          \* thread::sleep(Duration::from_millis(550))

\* the clock advances in steps of a fifth of the debounce delay
TimeStep == DebounceMs \div 5
MaxTicks == 12
MaxWatchEvents == 3

WatchedPaths == {Files[1]}

\* a file indexed with its present contents, and the watcher just started
WatcherInit ==
    /\ ChunkerIdle
    /\ IndexIdle
    /\ UpdateIdle
    /\ WatcherIdle
    /\ SchemaIdle
    /\ SearchIdle
    /\ CodecIdle
    /\ ContextIdle
    /\ PdfIdle
    /\ RouteIdle
    /\ disk \in [Paths -> {"A", "B"}]
    /\ OldStore(disk, [p \in Paths |-> AllEmbedded])
    /\ db_writes = 0
    /\ model_ok \in BOOLEAN
    /\ faults = 0

\* DebounceState::should_process: the answer and the map it leaves
should_process(pending, file_path, now) ==
    IF pending[file_path] # NoTime
    THEN IF now - pending[file_path] >= DebounceMs
         THEN [result |-> TRUE, pending |-> [pending EXCEPT ![file_path] = NoTime]]
         ELSE [result |-> FALSE, pending |-> pending]
    ELSE [result |-> FALSE, pending |-> [pending EXCEPT ![file_path] = now]]

\* DebounceState::update_timestamp
update_timestamp(pending, file_path, now) == [pending EXCEPT ![file_path] = now]

\* DebounceState::clear
clear(pending, file_path) == [pending EXCEPT ![file_path] = NoTime]

WatcherFrame == UNCHANGED notWatcher /\ UNCHANGED <<model_ok>>
StoreKept == UNCHANGED <<db_docs, db_chunks, next_doc_id, next_chunk_id, db_writes, faults>>

\* time passes
Tick ==
    /\ WatcherFrame
    /\ w_now + TimeStep <= MaxTicks * TimeStep
    /\ w_now' = w_now + TimeStep
    /\ StoreKept
    /\ UNCHANGED <<disk, pending_files, w_thr, w_events, w_dispatched>>

\* the file is written and the event loop handles its Create/Modify event:
\* update_timestamp, then a thread is spawned that sleeps 550 ms
WatchEvent(path, text) ==
    /\ WatcherFrame
    /\ Len(w_thr) < MaxWatchEvents
    /\ text # disk[path]
    /\ disk' = [disk EXCEPT ![path] = text]
    /\ pending_files' = update_timestamp(pending_files, path, w_now)
    /\ w_thr' = Append(w_thr, [kind |-> "check", path |-> path, pc |-> "sleep",
                               wake |-> w_now + SleepMs, text |-> "", olds |-> <<>>])
    /\ w_events' = Append(w_events, w_now)
    /\ StoreKept
    /\ UNCHANGED <<w_now, w_dispatched>>

\* the file is deleted and the event loop handles its Remove event: clear, then a
\* thread is spawned that runs remove_file_sync at once
RemoveEvent(path) ==
    /\ WatcherFrame
    /\ Len(w_thr) < MaxWatchEvents
    /\ disk[path] # "absent"
    /\ disk' = [disk EXCEPT ![path] = "absent"]
    /\ pending_files' = clear(pending_files, path)
    /\ w_thr' = Append(w_thr, [kind |-> "remove", path |-> path, pc |-> "remove",
                               wake |-> 0, text |-> "", olds |-> <<>>])
    /\ StoreKept
    /\ UNCHANGED <<w_now, w_events, w_dispatched>>

\* remove_file_sync: DELETE FROM documents WHERE path = ?, the chunks going with
\* their documents
remove_file_sync(i) ==
    /\ WatcherFrame
    /\ w_thr[i].pc = "remove"
    /\ LET gone == {d \in db_docs : d.path = w_thr[i].path}
       IN  /\ db_docs' = db_docs \ gone
           /\ db_chunks' = {c \in db_chunks : \A d \in gone : c.doc_id # d.id}
           /\ db_writes' = db_writes + (IF gone = {} THEN 0 ELSE 1)
    /\ w_thr' = [w_thr EXCEPT ![i].pc = "end"]
    /\ UNCHANGED <<next_doc_id, next_chunk_id, faults>>
    /\ UNCHANGED <<disk, w_now, pending_files, w_events, w_dispatched>>

\* a check thread wakes, no sooner than 550 ms after its event, and calls
\* should_process
DebounceCheck(i) ==
    /\ WatcherFrame
    /\ w_thr[i].pc = "sleep"
    /\ w_now >= w_thr[i].wake
    /\ LET r == should_process(pending_files, w_thr[i].path, w_now)
       IN  /\ pending_files' = r.pending
           /\ w_thr' = [w_thr EXCEPT ![i].pc = IF r.result THEN "update" ELSE "end"]
           /\ w_dispatched' = w_dispatched + (IF r.result THEN 1 ELSE 0)
    /\ StoreKept
    /\ UNCHANGED <<disk, w_now, w_events>>

\* update_file_sync up to the smart diff: the file is read and hashed, and compared
\* with the stored row; an absent or unchanged file returns Ok
UpdateRead(i) ==
    /\ WatcherFrame
    /\ w_thr[i].pc = "update"
    /\ LET path == w_thr[i].path
       IN  IF disk[path] = "absent" \/ ExistsSameHash(1, path, Sha256(disk[path]))
           THEN w_thr' = [w_thr EXCEPT ![i].pc = "clear"]
           ELSE w_thr' = [w_thr EXCEPT ![i].pc = "commit", ![i].text = disk[path],
                                       ![i].olds = OldEmbeddings(OldChunkRows(1, path))]
    /\ StoreKept
    /\ UNCHANGED <<disk, w_now, pending_files, w_events, w_dispatched>>

\* the rows the transaction of update_file_sync inserts for the chunks of `text`
NewChunkRows(doc_id, first_id, text, olds) ==
    LET contents == ChunksOf(text)
        need == NeedsEmbedding(contents, olds)
        vecs == [j \in 1..Len(need) |-> Embed(need[j])]
        embs == MapEmbeddings(contents, olds, model_ok /\ need # <<>>, vecs)
    IN  {ChunkRow(first_id + k - 1, doc_id, contents[k], embs[k]) : k \in 1..Len(contents)}

\* the rest of update_file_sync: embeddings, and the transaction that replaces the
\* document and its chunks; an error leaves the Store and skips clear()
UpdateCommit(i, failed) ==
    /\ WatcherFrame
    /\ w_thr[i].pc = "commit"
    /\ MayFail(failed)
    /\ Count(failed)
    /\ LET path == w_thr[i].path
           text == w_thr[i].text
       IN  IF failed
           THEN /\ w_thr' = [w_thr EXCEPT ![i].pc = "end"]
                /\ UNCHANGED <<db_docs, db_chunks, next_doc_id, next_chunk_id, db_writes>>
           ELSE /\ db_docs' = DocsAfterDelete(1, path) \cup {Doc(next_doc_id, path, text)}
                /\ db_chunks' = ChunksAfterDelete(1, path) \cup
                       NewChunkRows(next_doc_id, next_chunk_id, text, w_thr[i].olds)
                /\ next_doc_id' = next_doc_id + 1
                /\ next_chunk_id' = next_chunk_id + Len(ChunksOf(text))
                /\ db_writes' = db_writes + 1
                /\ w_thr' = [w_thr EXCEPT ![i].pc = "clear"]
    /\ UNCHANGED <<disk, w_now, pending_files, w_events, w_dispatched>>

\* update_file_sync returned Ok: debounce_clone.clear(&path_clone)
ClearAfterUpdate(i) ==
    /\ WatcherFrame
    /\ w_thr[i].pc = "clear"
    /\ pending_files' = clear(pending_files, w_thr[i].path)
    /\ w_thr' = [w_thr EXCEPT ![i].pc = "end"]
    /\ StoreKept
    /\ UNCHANGED <<disk, w_now, w_events, w_dispatched>>

WatcherNext ==
    \/ Tick
    \/ \E path \in WatchedPaths : \E text \in {"A", "B"} : WatchEvent(path, text)
    \/ \E i \in 1..Len(w_thr) : DebounceCheck(i)
    \/ \E i \in 1..Len(w_thr) : UpdateRead(i)
    \/ \E i \in 1..Len(w_thr) : \E failed \in BOOLEAN : UpdateCommit(i, failed)
    \/ \E i \in 1..Len(w_thr) : ClearAfterUpdate(i)
    \/ \E path \in WatchedPaths : RemoveEvent(path)
    \/ \E i \in 1..Len(w_thr) : remove_file_sync(i)

SpecWatcher == WatcherInit /\ [][WatcherNext]_vars

(***************************************************************************)
(* db.rs: create_schema (foreign keys, triggers) and cleanup_ghost_data;   *)
(* commands.rs: delete_collection, handle_file_removal                     *)
(***************************************************************************)
MaxStoreOps == 5

\* two collections: one to delete and another one
Colls == {1, 2}
\* what an INSERT gives a chunk, and what an UPDATE changes it to
InsertedChunk == [content |-> "intro", metadata |-> NULL]
UpdatedChunk == [content |-> "alpha", metadata |-> <<"text">>]

\* a row of chunks with its metadata column
StoreChunk(id, doc_id, content, metadata) ==
    [id |-> id, doc_id |-> doc_id, content |-> content, metadata |-> metadata,
     embedding |-> NULL]

\* FOREIGN KEY (doc_id) REFERENCES documents(id) with no action on delete
ChunksOfDocsNone(rows, docs) == {}

\* FOREIGN KEY (doc_id) REFERENCES documents(id) ON DELETE CASCADE: the rows of
\* chunks that go with the rows `docs` of documents
ChunksOfDocs(rows, docs) == {c \in rows : \E d \in docs : c.doc_id = d.id}

\* a DELETE FROM documents that takes the rows of every collection
DocsOfCollectionAny(docs, coll) == docs

\* FOREIGN KEY (collection_id) REFERENCES collections(id) ON DELETE CASCADE: the
\* rows of documents that go with the collection
DocsOfCollection(docs, coll) == {d \in docs : d.collection_id = coll}

\* TRIGGER chunks_ai AFTER INSERT ON chunks
chunks_ai(fts, new) ==
    fts \cup {[rowid |-> new.id, content |-> new.content, metadata |-> new.metadata]}

\* an AFTER DELETE trigger that leaves chunks_fts alone
chunks_ad_none(fts, olds) == fts

\* TRIGGER chunks_ad AFTER DELETE ON chunks, for each deleted row
chunks_ad(fts, olds) == {f \in fts : \A old \in olds : f.rowid # old.id}

\* TRIGGER chunks_au AFTER UPDATE ON chunks
chunks_au(fts, new) ==
    {IF f.rowid = new.id
     THEN [f EXCEPT !.content = new.content, !.metadata = new.metadata]
     ELSE f : f \in fts}

\* a DELETE FROM documents that reports success and removes nothing
DocsWithoutKept(docs, gone) == docs

\* the rows of documents left by a DELETE of the rows `gone`
DocsWithout(docs, gone) == docs \ gone

\* the Store after a DELETE FROM documents of the rows `gone`: the cascade to chunks
\* and the trigger on each deleted chunk
DeleteDocs(gone) ==
    /\ db_docs' = DocsWithout(db_docs, gone)
    /\ db_chunks' = db_chunks \ ChunksOfDocs(db_chunks, gone)
    /\ db_fts' = chunks_ad(db_fts, ChunksOfDocs(db_chunks, gone))

\* a database just initialised, with its collections created, and the files on disk
SchemaInit ==
    /\ ChunkerIdle
    /\ IndexIdle
    /\ UpdateIdle
    /\ WatcherIdle
    /\ SearchIdle
    /\ CodecIdle
    /\ ContextIdle
    /\ PdfIdle
    /\ RouteIdle
    /\ disk = [p \in Paths |-> "A"]
    /\ db_docs = {}
    /\ db_chunks = {}
    /\ next_doc_id = 1
    /\ next_chunk_id = 1
    /\ db_writes = 0
    /\ model_ok = FALSE
    /\ faults = 0
    /\ db_collections = Colls
    /\ db_fts = {}
    /\ st_ops = 0
    /\ st_last = NoStmt
    /\ cg_pc = "idle"
    /\ cg_docs = <<>>
    /\ cg_deleted = 0
    /\ cg_pre = NoCall
    /\ cg_quiet = 0

\* one statement on a connection, outside a call of cleanup_ghost_data
Stmt(op) ==
    /\ UNCHANGED notSchema
    /\ cg_pc # "loop"
    /\ st_ops < MaxStoreOps
    /\ st_ops' = st_ops + 1
    /\ st_last' = [op |-> op,
                   cascaded |-> IF db_docs' # db_docs
                                THEN Cardinality(db_chunks) - Cardinality(db_chunks')
                                ELSE 0]
    /\ cg_quiet' = 0
    /\ UNCHANGED <<disk, db_writes, model_ok, faults, cg_pc, cg_docs, cg_deleted, cg_pre>>

\* INSERT INTO documents (collection_id, path, ...): the collection must exist and
\* (collection_id, path) be new
InsertDocument(coll, path) ==
    /\ coll \in db_collections
    /\ DocsAt(coll, path) = {}
    /\ db_docs' = db_docs \cup {[Doc(next_doc_id, path, disk[path]) EXCEPT !.collection_id = coll]}
    /\ next_doc_id' = next_doc_id + 1
    /\ UNCHANGED <<db_chunks, next_chunk_id, db_collections, db_fts>>
    /\ Stmt("insert_document")

\* INSERT INTO chunks (doc_id, content, metadata, ...): the document must exist
InsertChunk(doc_id, content, metadata) ==
    /\ \E d \in db_docs : d.id = doc_id
    /\ LET new == StoreChunk(next_chunk_id, doc_id, content, metadata)
       IN  /\ db_chunks' = db_chunks \cup {new}
           /\ db_fts' = chunks_ai(db_fts, new)
    /\ next_chunk_id' = next_chunk_id + 1
    /\ UNCHANGED <<db_docs, next_doc_id, db_collections>>
    /\ Stmt("insert_chunk")

\* UPDATE chunks SET content = ?, metadata = ? WHERE id = ?
UpdateChunk(id, content, metadata) ==
    /\ \E old \in db_chunks :
          /\ old.id = id
          /\ <<old.content, old.metadata>> # <<content, metadata>>
          /\ LET new == [old EXCEPT !.content = content, !.metadata = metadata]
             IN  /\ db_chunks' = (db_chunks \ {old}) \cup {new}
                 /\ db_fts' = chunks_au(db_fts, new)
    /\ UNCHANGED <<db_docs, next_doc_id, next_chunk_id, db_collections>>
    /\ Stmt("update_chunk")

\* DELETE FROM chunks WHERE id = ?
DeleteChunk(id) ==
    /\ LET olds == {c \in db_chunks : c.id = id}
       IN  /\ olds # {}
           /\ db_chunks' = db_chunks \ olds
           /\ db_fts' = chunks_ad(db_fts, olds)
    /\ UNCHANGED <<db_docs, next_doc_id, next_chunk_id, db_collections>>
    /\ Stmt("delete_chunk")

\* handle_file_removal / remove_file_sync: DELETE FROM documents WHERE path = ?
DeleteDocument(path) ==
    /\ \E d \in db_docs : d.path = path
    /\ DeleteDocs({d \in db_docs : d.path = path})
    /\ UNCHANGED <<next_doc_id, next_chunk_id, db_collections>>
    /\ Stmt("delete_document")

\* delete_collection: DELETE FROM collections WHERE id = ?
delete_collection(collection_id) ==
    /\ collection_id \in db_collections
    /\ db_collections' = db_collections \ {collection_id}
    /\ DeleteDocs(DocsOfCollection(db_docs, collection_id))
    /\ UNCHANGED <<next_doc_id, next_chunk_id>>
    /\ Stmt("delete_collection")

\* the pages clipped by the browser extension
ClipUrls == {"https://e.org/p"}

\* format!("web://{}", clip.url)
pseudo_path(url) == "web://" \o url

\* the chunk of a web clip: full_content and its metadata
ClipChunk == [content |-> "clip", metadata |-> <<"web">>]

\* store_web_clip: an earlier document of the URL in the collection is deleted,
\* then the document and its single chunk are inserted
store_web_clip(url, collection_id) ==
    /\ collection_id \in db_collections
    /\ next_doc_id <= MaxStoreOps
    /\ LET olds == DocsAt(collection_id, pseudo_path(url))
           new == StoreChunk(next_chunk_id, next_doc_id, ClipChunk.content, ClipChunk.metadata)
       IN  /\ db_docs' = DocsWithout(db_docs, olds) \cup
                  {[Doc(next_doc_id, pseudo_path(url), ClipChunk.content)
                        EXCEPT !.collection_id = collection_id]}
           /\ db_chunks' = (db_chunks \ ChunksOfDocs(db_chunks, olds)) \cup {new}
           /\ db_fts' = chunks_ai(chunks_ad(db_fts, ChunksOfDocs(db_chunks, olds)), new)
    /\ next_doc_id' = next_doc_id + 1
    /\ next_chunk_id' = next_chunk_id + 1
    /\ UNCHANGED notSchema
    /\ cg_pc # "loop"
    /\ st_ops < MaxStoreOps
    /\ st_ops' = st_ops + 1
    /\ st_last' = [op |-> "store_web_clip",
                   cascaded |-> Cardinality(ChunksOfDocs(db_chunks,
                                    DocsAt(collection_id, pseudo_path(url))))]
    /\ cg_quiet' = 0
    /\ UNCHANGED <<disk, db_writes, model_ok, faults, db_collections, cg_pc, cg_docs,
                   cg_deleted, cg_pre>>

\* a file is deleted on disk
FileRemoved(path) ==
    /\ UNCHANGED notSchema
    /\ disk[path] # "absent"
    /\ st_ops < MaxStoreOps
    /\ st_ops' = st_ops + 1
    /\ disk' = [disk EXCEPT ![path] = "absent"]
    /\ cg_quiet' = IF cg_pc = "loop" THEN -1 ELSE 0
    /\ UNCHANGED <<db_docs, db_chunks, next_doc_id, next_chunk_id, db_writes, model_ok,
                   faults, db_collections, db_fts, st_last, cg_pc, cg_docs,
                   cg_deleted, cg_pre>>

RECURSIVE ById(_)
\* the rows of a SELECT in rowid order, as (id, path) pairs
ById(rows) ==
    IF rows = {} THEN <<>>
    ELSE LET first == CHOOSE r \in rows : \A o \in rows : r.id <= o.id
         IN  <<[id |-> first.id, path |-> first.path]>> \o ById(rows \ {first})

\* Path::new(&path).exists(): a path that names no file of the disk does not exist
PathExists(path) == path \in DOMAIN disk /\ disk[path] # "absent"

CleanupFrame ==
    /\ UNCHANGED notSchema
    /\ UNCHANGED <<disk, next_doc_id, next_chunk_id, db_writes, model_ok, db_collections,
                   st_last>>

\* cleanup_ghost_data up to the loop: SELECT id, path FROM documents; deleted = 0
CleanupStart ==
    /\ CleanupFrame
    /\ cg_pc \in {"idle", "done", "failed"}
    /\ st_ops < MaxStoreOps
    /\ st_ops' = st_ops + 1
    /\ cg_pc' = "loop"
    /\ cg_docs' = ById(db_docs)
    /\ cg_deleted' = 0
    /\ cg_pre' = [ndocs |-> Cardinality(db_docs), nchunks |-> Cardinality(db_chunks),
                  absent |-> {p \in Paths : ~PathExists(p)}]
    /\ cg_quiet' = IF cg_pc = "done" THEN cg_quiet ELSE 0
    /\ UNCHANGED <<db_docs, db_chunks, db_fts, faults>>

\* one turn of the loop: a document whose path does not exist is deleted by id and
\* counted; an error of the DELETE ends the call
CleanupStep(failed) ==
    /\ CleanupFrame
    /\ cg_pc = "loop"
    /\ cg_docs # <<>>
    /\ MayFail(failed)
    /\ Count(failed)
    /\ LET doc == Head(cg_docs)
       IN  IF PathExists(doc.path)
           THEN /\ ~failed
                /\ cg_docs' = Tail(cg_docs)
                /\ UNCHANGED <<db_docs, db_chunks, db_fts, cg_deleted, cg_pc, cg_quiet>>
           ELSE IF failed
           THEN /\ cg_pc' = "failed"
                /\ cg_quiet' = 0
                /\ UNCHANGED <<db_docs, db_chunks, db_fts, cg_deleted, cg_docs>>
           ELSE /\ DeleteDocs({d \in db_docs : d.id = doc.id})
                /\ cg_deleted' = cg_deleted + 1
                /\ cg_docs' = Tail(cg_docs)
                /\ UNCHANGED <<cg_pc, cg_quiet>>
    /\ UNCHANGED <<cg_pre, st_ops>>

\* Ok(deleted)
CleanupReturn ==
    /\ CleanupFrame
    /\ cg_pc = "loop"
    /\ cg_docs = <<>>
    /\ cg_pc' = "done"
    /\ cg_quiet' = cg_quiet + 1
    /\ UNCHANGED <<db_docs, db_chunks, db_fts, faults, cg_docs, cg_deleted, cg_pre, st_ops>>

SchemaNext ==
    \/ \E coll \in Colls : \E path \in Paths : InsertDocument(coll, path)
    \/ \E doc_id \in 1..MaxStoreOps :
          InsertChunk(doc_id, InsertedChunk.content, InsertedChunk.metadata)
    \/ \E id \in 1..MaxStoreOps :
          UpdateChunk(id, UpdatedChunk.content, UpdatedChunk.metadata)
    \/ \E id \in 1..MaxStoreOps : DeleteChunk(id)
    \/ \E path \in Paths : DeleteDocument(path)
    \/ \E collection_id \in Colls : delete_collection(collection_id)
    \/ \E path \in Paths : FileRemoved(path)
    \/ \E url \in ClipUrls : \E collection_id \in Colls : store_web_clip(url, collection_id)
    \/ CleanupStart
    \/ \E failed \in BOOLEAN : CleanupStep(failed)
    \/ CleanupReturn

SpecSchema == SchemaInit /\ [][SchemaNext]_vars

(***************************************************************************)
(* search.rs: search_hybrid, bm25_search_only, hybrid_search_full          *)
(***************************************************************************)
BM25_WEIGHT == 3        \* 0.3, in tenths
VECTOR_WEIGHT == 7      \* 0.7, in tenths
Scale == 1000           \* scores are kept in thousandths

MaxMatches == 4
MaxLimit == 2

\* what a matching chunk can be: its FTS5 rank (negative, smaller is better) and the
\* cosine of its embedding with the query, in thousandths, or no embedding
RowKinds == {[rank |-> -1, emb |-> NULL], [rank |-> -3, emb |-> NULL],
             [rank |-> -3, emb |-> <<900>>], [rank |-> -3, emb |-> <<-200>>]}

Abs(x) == IF x < 0 THEN -x ELSE x

\* 1.0 / (1.0 + result.score.abs())
Bm25Normalized(rank) == Scale \div (1 + Abs(rank))

\* a missing embedding taken for a perfect match
VecScoreMissingAsOne(emb) == IF emb = NULL THEN Scale ELSE emb[1]

\* vec_score: the cosine of the normalized vectors, 0.0 for a chunk without embedding
VecScore(emb) == IF emb = NULL THEN 0 ELSE emb[1]

\* the two weights exchanged
HybridScoreSwapped(row) ==
    (BM25_WEIGHT * VecScore(row.emb)) + (VECTOR_WEIGHT * Bm25Normalized(row.rank))

\* VECTOR_WEIGHT * vec_score + BM25_WEIGHT * bm25_score_normalized, in units of
\* 1 / (10 * Scale): the weights are in tenths
HybridScore(row) ==
    (VECTOR_WEIGHT * VecScore(row.emb)) + (BM25_WEIGHT * Bm25Normalized(row.rank))

\* the orders in which ORDER BY rank may return the matching rows
RankOrders(rows) ==
    {o \in [1..Len(rows) -> 1..Len(rows)] :
        /\ \A i, j \in 1..Len(rows) : i # j => o[i] # o[j]
        /\ \A i, j \in 1..Len(rows) : i < j => rows[o[i]].rank <= rows[o[j]].rank}

\* bm25_search_only: the first n rows in the order `o`, with score = rank
bm25_search_only(rows, o, n) ==
    [i \in 1..(IF n < Len(rows) THEN n ELSE Len(rows)) |->
        [chunk_id |-> o[i], score |-> rows[o[i]].rank * Scale]]

\* a slice left in the order it has
SortedDescNone(hits) == hits

\* sort_by(|a, b| b.score.partial_cmp(&a.score)): a stable sort, descending by score;
\* an element goes after those of greater score and those of equal score before it
SortedDesc(hits) ==
    LET Pos(i) == 1 + Cardinality({j \in 1..Len(hits) :
                                     \/ hits[j].score > hits[i].score
                                     \/ hits[j].score = hits[i].score /\ j < i})
    IN  [p \in 1..Len(hits) |-> hits[CHOOSE i \in 1..Len(hits) : Pos(i) = p]]

\* steps 3 to 6 of hybrid_search_full: the hybrid score of each BM25 result, the
\* sort and the truncation
Reranked(rows, bm25, limit) ==
    Truncate(SortedDesc([i \in 1..Len(bm25) |->
                            [bm25[i] EXCEPT !.score = HybridScore(rows[bm25[i].chunk_id])]]),
             limit)

\* a Store in which some chunks match the query
SearchInit ==
    /\ ChunkerIdle
    /\ StoreIdle
    /\ IndexIdle
    /\ UpdateIdle
    /\ WatcherIdle
    /\ SchemaIdle
    /\ CodecIdle
    /\ ContextIdle
    /\ PdfIdle
    /\ RouteIdle
    /\ sr_pc = "idle"
    /\ \E n \in 0..MaxMatches : sr_rows \in [1..n -> RowKinds]
    /\ sr_limit \in 0..MaxLimit
    /\ bm25_results = <<>>
    /\ sr_result = NoResult

SearchFrame == UNCHANGED notSearch /\ UNCHANGED storeVars /\ UNCHANGED <<sr_rows, sr_limit>>

\* search_hybrid: EmbeddingModel::new() fails, bm25_search_only(conn, query, .., limit)
SearchFallback(o) ==
    /\ SearchFrame
    /\ sr_pc = "idle"
    /\ bm25_results' = bm25_search_only(sr_rows, o, sr_limit)
    /\ sr_result' = [ok |-> TRUE, hits |-> bm25_results']
    /\ sr_pc' = "done_fallback"

\* search_hybrid with a model: step 1 of hybrid_search_full, limit * 3 candidates,
\* and the return of an empty list when there is none
SearchCandidates(o) ==
    /\ SearchFrame
    /\ sr_pc = "idle"
    /\ bm25_results' = bm25_search_only(sr_rows, o, sr_limit * 3)
    /\ IF bm25_results' = <<>>
       THEN sr_pc' = "done" /\ sr_result' = [ok |-> TRUE, hits |-> <<>>]
       ELSE sr_pc' = "embed" /\ UNCHANGED sr_result

\* step 2 on: model.embed(query)? and, when it succeeds, the re-ranking
SearchRerank(failed) ==
    /\ SearchFrame
    /\ sr_pc = "embed"
    /\ sr_result' = IF failed THEN [ok |-> FALSE, hits |-> <<>>]
                    ELSE [ok |-> TRUE, hits |-> Reranked(sr_rows, bm25_results, sr_limit)]
    /\ sr_pc' = IF failed THEN "done_embed_failed" ELSE "done"
    /\ UNCHANGED bm25_results

SearchNext ==
    \/ sr_pc = "idle" /\ \E o \in RankOrders(sr_rows) : SearchFallback(o)
    \/ sr_pc = "idle" /\ \E o \in RankOrders(sr_rows) : SearchCandidates(o)
    \/ \E failed \in BOOLEAN : SearchRerank(failed)

SpecSearch == SearchInit /\ [][SearchNext]_vars


(***************************************************************************)
(* search.rs: f32_vec_to_bytes and bytes_to_f32_vec                        *)
(***************************************************************************)
MaxVecLen == 2

\* f32 values as bits: 0.0, -0.0, 1.0, -3.7, 100.5, a NaN with a payload, and all ones
F32Samples == {<<0, 0>>, <<32768, 0>>, <<16256, 0>>, <<49260, 52429>>, <<17097, 0>>,
               <<32704, 1>>, <<65535, 65535>>}

\* a vector to serialize
CodecInit ==
    /\ ChunkerIdle
    /\ StoreIdle
    /\ IndexIdle
    /\ UpdateIdle
    /\ WatcherIdle
    /\ SchemaIdle
    /\ SearchIdle
    /\ ContextIdle
    /\ PdfIdle
    /\ RouteIdle
    /\ cd_pc = "idle"
    /\ \E n \in 0..MaxVecLen : cd_vec \in [1..n -> F32Samples]
    /\ cd_bytes = <<>>
    /\ cd_back = <<>>

\* bytes = f32_vec_to_bytes(&vec)
Serialize ==
    /\ UNCHANGED notCodec
    /\ cd_pc = "idle"
    /\ cd_bytes' = f32_vec_to_bytes(cd_vec)
    /\ cd_pc' = "serialized"
    /\ UNCHANGED <<cd_vec, cd_back>>

\* bytes_to_f32_vec(&bytes)
Deserialize ==
    /\ UNCHANGED notCodec
    /\ cd_pc = "serialized"
    /\ cd_back' = bytes_to_f32_vec(cd_bytes)
    /\ cd_pc' = "done"
    /\ UNCHANGED <<cd_vec, cd_bytes>>

CodecNext ==
    \/ Serialize
    \/ Deserialize

SpecCodec == CodecInit /\ [][CodecNext]_vars


(***************************************************************************)
(* commands.rs: get_chunk_context                                          *)
(***************************************************************************)
MaxCtxChunks == 4
MaxContext == 1

\* context_size.unwrap_or(5)
DefaultContextSize == 5

CtxDocs == {1, 2}
CtxLines == {1, 2}

\* Option<i64>: None is <<>>, Some(n) is <<n>>
ContextSizes == {<<>>} \cup {<<n>> : n \in 0..MaxContext}

\* a Store with some chunk rows, and the arguments of a call
ContextInit ==
    /\ ChunkerIdle
    /\ StoreIdle
    /\ IndexIdle
    /\ UpdateIdle
    /\ WatcherIdle
    /\ SchemaIdle
    /\ SearchIdle
    /\ CodecIdle
    /\ RouteIdle
    /\ PdfIdle
    /\ cx_pc = "idle"
    /\ \E n \in 0..MaxCtxChunks :
       \E f \in [1..n -> [doc_id : CtxDocs, start_line : CtxLines]] :
          cx_store = {[chunk_id |-> i, doc_id |-> f[i].doc_id, start_line |-> f[i].start_line]
                         : i \in 1..n}
    /\ cx_args \in [doc_id : CtxDocs, start_line : CtxLines \cup {3},
                    context_size : ContextSizes]
    /\ all_chunks = <<>>
    /\ cx_result = <<>>

\* the orders in which WHERE c.doc_id = ? ORDER BY c.start_line may return the rows
LineOrders(rows) ==
    {o \in [1..Cardinality(rows) -> rows] :
        /\ \A i, j \in 1..Cardinality(rows) : i # j => o[i] # o[j]
        /\ \A i, j \in 1..Cardinality(rows) : i < j => o[i].start_line <= o[j].start_line}

\* all_chunks.iter().position(|chunk| chunk.start_line == start_line): 0 for None
Position(all, line) ==
    IF \E i \in 1..Len(all) : all[i].start_line = line
    THEN CHOOSE i \in 1..Len(all) :
            /\ all[i].start_line = line
            /\ \A j \in 1..(i - 1) : all[j].start_line # line
    ELSE 0

\* the slice without the element at idx + context_size
ContextSliceShort(all, idx, n) ==
    SubSeq(all, IF idx - n < 1 THEN 1 ELSE idx - n,
                IF idx + n - 1 > Len(all) THEN Len(all) ELSE idx + n - 1)

\* all_chunks[start..end] with start = idx.saturating_sub(n) and
\* end = (idx + n + 1).min(len), for the 1-based idx
ContextSlice(all, idx, n) ==
    SubSeq(all, IF idx - n < 1 THEN 1 ELSE idx - n,
                IF idx + n > Len(all) THEN Len(all) ELSE idx + n)

\* the query: the chunks of the document, ordered by start_line
ContextQuery(o) ==
    /\ UNCHANGED notContext
    /\ UNCHANGED storeVars
    /\ cx_pc = "idle"
    /\ all_chunks' = o
    /\ cx_pc' = "queried"
    /\ UNCHANGED <<cx_store, cx_args, cx_result>>

\* target_index and the slice around it, or all chunks when there is no target
ContextReturn ==
    /\ UNCHANGED notContext
    /\ UNCHANGED storeVars
    /\ cx_pc = "queried"
    /\ LET context_size == IF cx_args.context_size = <<>> THEN DefaultContextSize
                           ELSE cx_args.context_size[1]
           target_index == Position(all_chunks, cx_args.start_line)
       IN  cx_result' = IF target_index # 0
                        THEN ContextSlice(all_chunks, target_index, context_size)
                        ELSE all_chunks
    /\ cx_pc' = "done"
    /\ UNCHANGED <<cx_store, cx_args, all_chunks>>

ContextNext ==
    \/ /\ cx_pc = "idle"
       /\ \E o \in LineOrders({c \in cx_store : c.doc_id = cx_args.doc_id}) : ContextQuery(o)
    \/ ContextReturn

SpecContext == ContextInit /\ [][ContextNext]_vars

(***************************************************************************)
(* commands.rs: update_file_incremental, watcher.rs: update_file_sync:     *)
(* the checks that come before the smart diff, with paths as strings       *)
(***************************************************************************)
\* a path is the sequence of its characters, its extension (with the dot) being
\* one element
RouteFolder == <<"/", "d">>
RoutePathSeq == << <<"/", "d", "/", "a", ".md">>,
                  <<"/", "d", "2", "/", "a", ".md">>,
                  <<"/", "x", "/", "a", ".markdown">>,
                  <<"/", "d", "/", "n", ".txt">> >>
RoutePaths == {RoutePathSeq[i] : i \in DOMAIN RoutePathSeq}

\* Path::extension, with its dot
Extension(path) ==
    IF path # <<>> /\ path[Len(path)] \in {".md", ".markdown", ".pdf", ".txt"}
    THEN path[Len(path)] ELSE ""

\* extension != "md" && extension != "markdown" && extension != "pdf"
IsDocument(path) == Extension(path) \in {".md", ".markdown", ".pdf"}

\* str::starts_with
starts_with(str, prefix) ==
    Len(prefix) <= Len(str) /\ SubSeq(str, 1, Len(prefix)) = prefix

\* SELECT collection_id FROM documents WHERE path = ?, else the first collection
\* whose folder_path the file path starts with: <<>> or <<id>>
CollectionOf(path) ==
    IF \E d \in db_docs : d.path = path
    THEN <<(CHOOSE d \in db_docs : d.path = path).collection_id>>
    ELSE IF rt_folder # <<>> /\ starts_with(path, rt_folder[1]) THEN <<1>>
    ELSE <<>>

\* a Store that holds the documents of some of the Markdown files, as indexed from
\* their text "A", one collection with or without a folder, and the files on disk
RouteInit ==
    /\ ChunkerIdle
    /\ IndexIdle
    /\ UpdateIdle
    /\ WatcherIdle
    /\ SchemaIdle
    /\ SearchIdle
    /\ CodecIdle
    /\ ContextIdle
    /\ PdfIdle
    /\ rt_pc = "idle"
    /\ rt_entry = "command"
    /\ rt_path = <<>>
    /\ rt_coll = <<>>
    /\ rt_embeds = 0
    /\ rt_pre = NoPre
    /\ rt_folder \in {<<>>, <<RouteFolder>>}
    /\ disk \in [RoutePaths -> {"A", "B", "absent"}]
    /\ \E stored \in SUBSET {i \in DOMAIN RoutePathSeq : IsDocument(RoutePathSeq[i])} :
          /\ db_docs = {Doc(i, RoutePathSeq[i], "A") : i \in stored}
          /\ db_chunks = UNION {
                 {ChunkRow(((i - 1) * 3) + k, i, ChunksOf("A")[k], EmbedBytes(ChunksOf("A")[k]))
                    : k \in 1..Len(ChunksOf("A"))} : i \in stored}
    /\ next_doc_id = Len(RoutePathSeq) + 1
    /\ next_chunk_id = (3 * Len(RoutePathSeq)) + 1
    /\ db_writes = 0
    /\ model_ok = TRUE
    /\ faults = 0

\* lines 602-650 (watcher.rs 178-223): path.exists(), the extension, the collection
RouteStart(entry, path) ==
    /\ UNCHANGED notRoute
    /\ rt_pc = "idle"
    /\ rt_entry' = entry
    /\ rt_path' = path
    /\ rt_pre' = [docs |-> db_docs, chunks |-> db_chunks]
    /\ IF disk[path] = "absent"
       THEN IF entry = "command"
            THEN \* handle_file_removal: DELETE FROM documents WHERE path = ?
                 /\ db_docs' = {d \in db_docs : d.path # path}
                 /\ db_chunks' = {c \in db_chunks :
                                     \A d \in db_docs : d.path = path => c.doc_id # d.id}
                 /\ db_writes' = db_writes + Cardinality({d \in db_docs : d.path = path})
                 /\ rt_pc' = "removed"
                 /\ UNCHANGED rt_coll
            ELSE /\ rt_pc' = "ignored"
                 /\ UNCHANGED <<db_docs, db_chunks, db_writes, rt_coll>>
       ELSE /\ UNCHANGED <<db_docs, db_chunks, db_writes>>
            /\ IF ~IsDocument(path) \/ CollectionOf(path) = <<>>
               THEN rt_pc' = "ignored" /\ UNCHANGED rt_coll
               ELSE rt_pc' = "hash" /\ rt_coll' = CollectionOf(path)
    /\ UNCHANGED <<disk, next_doc_id, next_chunk_id, model_ok, faults, rt_folder, rt_embeds>>

\* lines 652-716 (watcher.rs 225-263): the file is read and hashed; a document of
\* the collection with this path and hash ends the update
RouteHash ==
    /\ UNCHANGED notRoute
    /\ rt_pc = "hash"
    /\ rt_pc' = IF ExistsSameHash(rt_coll[1], rt_path, Sha256(disk[rt_path]))
                THEN "unchanged" ELSE "replace"
    /\ UNCHANGED storeVars
    /\ UNCHANGED <<rt_entry, rt_path, rt_folder, rt_coll, rt_embeds, rt_pre>>

\* lines 718-889 (watcher.rs 265-435): the smart diff, one embed_batch call when a
\* chunk needs an embedding, and the transaction that replaces the document
RouteReplace(failed) ==
    /\ UNCHANGED notRoute
    /\ rt_pc = "replace"
    /\ MayFail(failed)
    /\ Count(failed)
    /\ LET text == disk[rt_path]
           olds == OldEmbeddings(OldChunkRows(rt_coll[1], rt_path))
           need == NeedsEmbedding(ChunksOf(text), olds)
       IN  /\ rt_embeds' = rt_embeds + (IF need # <<>> /\ model_ok THEN 1 ELSE 0)
           /\ IF failed
              THEN /\ rt_pc' = "failed"
                   /\ UNCHANGED <<db_docs, db_chunks, next_doc_id, next_chunk_id, db_writes>>
              ELSE /\ db_docs' = DocsAfterDelete(rt_coll[1], rt_path) \cup
                                    {Doc(next_doc_id, rt_path, text)}
                   /\ db_chunks' = ChunksAfterDelete(rt_coll[1], rt_path) \cup
                          NewChunkRows(next_doc_id, next_chunk_id, text, olds)
                   /\ next_doc_id' = next_doc_id + 1
                   /\ next_chunk_id' = next_chunk_id + Len(ChunksOf(text))
                   /\ db_writes' = db_writes + 1
                   /\ rt_pc' = "done"
    /\ UNCHANGED <<disk, model_ok, rt_entry, rt_path, rt_folder, rt_coll, rt_pre>>

RouteNext ==
    \/ \E entry \in {"command", "watcher"} : \E path \in RoutePaths : RouteStart(entry, path)
    \/ RouteHash
    \/ \E failed \in BOOLEAN : RouteReplace(failed)

SpecRoute == RouteInit /\ [][RouteNext]_vars

(***************************************************************************)
(* pdf_parser.rs: extract_text_from_pdf_with_progress, is_scanned_pdf,     *)
(* chunk_pdf_text; watcher.rs: the PDF arm of update_file_sync             *)
(***************************************************************************)
MaxParas == 4
MaxPages == 2

\* the paragraphs a text layer is made of: blank ones, runs of 15, 20, 30 and 60
\* characters, and a run of 15 characters between newlines
ParaShapes == {<<>>, <<"nl">>, <<"h", "h", "h">>, <<"h", "h", "h", "h">>, <<"c">>,
               <<"nl", "h", "h", "h", "nl">>, <<"w">>}

\* the text whose paragraphs, separated by "\n\n", are paras
RECURSIVE JoinParas(_)
JoinParas(paras) ==
    IF paras = <<>> THEN <<>>
    ELSE IF Len(paras) = 1 THEN paras[1]
    ELSE paras[1] \o <<"nl", "nl">> \o JoinParas(Tail(paras))

PdfTexts == {JoinParas(ps) : ps \in UNION {[1..n -> ParaShapes] : n \in 0..MaxParas}}

\* what OCR reads from the page images when it succeeds
OcrText == <<"w", "nl", "nl", "c">>

\* str::split("\n\n"): the pieces between the matches, taken from the left
RECURSIVE SplitParas(_)
SplitParas(text) ==
    LET at == {i \in 1..(Len(text) - 1) : text[i] = "nl" /\ text[i + 1] = "nl"}
    IN  IF at = {} THEN <<text>>
        ELSE LET i == CHOOSE j \in at : \A k \in at : j <= k
             IN  <<SubSeq(text, 1, i - 1)>> \o SplitParas(SubSeq(text, i + 2, Len(text)))

\* is_scanned_pdf: no text, or fewer than 50 characters per page
is_scanned_pdf(text, page_count) ==
    LET text_length == StrLen(Trim(text))
        pages == IF page_count > 1 THEN page_count ELSE 1
    IN  text_length = 0 \/ (text_length \div pages) < 50

PdfChunk(content, first, last) ==
    [content |-> content, chunk_type |-> "pdf", start_line |-> first, end_line |-> last]

\* the loop of chunk_pdf_text over paragraphs idx.., skipping those under 20 characters
RECURSIVE ParaChunks(_, _)
ParaChunks(paragraphs, idx) ==
    IF idx > Len(paragraphs) THEN <<>>
    ELSE LET content == Trim(paragraphs[idx])
         IN  (IF StrLen(content) < 20 THEN <<>> ELSE <<PdfChunk(content, idx, idx)>>)
             \o ParaChunks(paragraphs, idx + 1)

\* chunk_pdf_text
chunk_pdf_text(text, page_count) ==
    LET paragraphs == SelectSeq(SplitParas(text), LAMBDA para : Trim(para) # <<>>)
    IN  IF paragraphs = <<>>
        THEN <<PdfChunk(text, 1, page_count)>>
        ELSE ParaChunks(paragraphs, 1)

\* a PDF file with its text layer and its pages
PdfInit ==
    /\ ChunkerIdle
    /\ StoreIdle
    /\ IndexIdle
    /\ UpdateIdle
    /\ WatcherIdle
    /\ SchemaIdle
    /\ SearchIdle
    /\ CodecIdle
    /\ ContextIdle
    /\ RouteIdle
    /\ pdf_pc = "idle"
    /\ pdf_text \in PdfTexts
    /\ pdf_pages \in 1..MaxPages
    /\ pdf_status = NoStatus
    /\ pdf_doc = NoDoc

\* extract_text_from_pdf_with_progress: the file is read and its text extracted
\* (readable), a scanned PDF goes to OCR (ocr: <<>> on failure, <<text>> on success)
ExtractPdf(readable, ocr) ==
    /\ UNCHANGED notPdf
    /\ pdf_pc = "idle"
    /\ pdf_status' =
          IF ~readable THEN [tag |-> "Err", text |-> <<>>, page_count |-> 0]
          ELSE IF is_scanned_pdf(pdf_text, pdf_pages)
          THEN IF ocr # <<>>
               THEN [tag |-> "OcrSuccess", text |-> ocr[1], page_count |-> pdf_pages]
               ELSE [tag |-> "ScannedPdf", text |-> <<>>, page_count |-> pdf_pages]
          ELSE [tag |-> "Success", text |-> pdf_text, page_count |-> pdf_pages]
    /\ pdf_pc' = "extracted"
    /\ UNCHANGED <<pdf_text, pdf_pages, pdf_doc>>

\* update_file_sync, lines 226-237: (content, chunks_result, doc_status) of a PDF;
\* every status but Success and ScannedPdf falls to the arm `_`
PdfArm(status) ==
    CASE status.tag = "Success" ->
            [content |-> status.text,
             chunks |-> chunk_pdf_text(status.text, status.page_count),
             status |-> "normal"]
      [] status.tag = "ScannedPdf" ->
            [content |-> <<>>, chunks |-> <<>>, status |-> "scanned_pdf"]
      [] OTHER ->
            [content |-> <<>>, chunks |-> <<>>, status |-> "error"]

IngestPdf ==
    /\ UNCHANGED notPdf
    /\ pdf_pc = "extracted"
    /\ pdf_doc' = PdfArm(pdf_status)
    /\ pdf_pc' = "done"
    /\ UNCHANGED <<pdf_text, pdf_pages, pdf_status>>

PdfNext ==
    \/ \E readable \in BOOLEAN : \E ocr \in {<<>>, <<OcrText>>} : ExtractPdf(readable, ocr)
    \/ IngestPdf

SpecPdf == PdfInit /\ [][PdfNext]_vars

ChunkerInit ==
    /\ ChunkerStart /\ StoreIdle /\ IndexIdle /\ UpdateIdle /\ WatcherIdle
    /\ SchemaIdle /\ SearchIdle /\ CodecIdle /\ ContextIdle /\ RouteIdle /\ PdfIdle

SpecChunker == ChunkerInit /\ [][ChunkerNext]_vars

(***************************************************************************)
(* Properties of the chunker                                               *)
(***************************************************************************)
IsCodeChunk(c) == c.chunk_type = "code"
CodeChunks == SelectSeq(chunks, IsCodeChunk)
CodeContents == [i \in 1..Len(CodeChunks) |-> CodeChunks[i].content]

NonEmptyBody(b) == b # <<>>
NonBlankBody(b) == Trim(b) # <<>>
TrimAll(bs) == [i \in 1..Len(bs) |-> Trim(bs[i])]

\* C1 as stated: one code chunk per code block whose body is not empty, in source
\* order, its content the whole body trimmed.
C1_OneChunkPerNonEmptyBlock ==
    CodeContents = TrimAll(SelectSeq(bodies, NonEmptyBody))

\* C1 amended: one code chunk per code block whose body is not empty after
\* trimming (a block of blank lines only yields no chunk), in source order, its
\* content the whole body trimmed, however long the block is.
C1_OneChunkPerNonBlankBlock ==
    CodeContents = TrimAll(SelectSeq(bodies, NonBlankBody))

\* a code block longer than MAX_CHUNK_SIZE was read up to the end of the input
\* and a block of blank lines was read too
C1_Witness ==
    /\ ck_pc = "done"
    /\ \E i \in 1..Len(chunks) :
          IsCodeChunk(chunks[i]) /\ StrLen(chunks[i].content) > MAX_CHUNK_SIZE
    /\ \E j \in 1..Len(bodies) : bodies[j] # <<>> /\ Trim(bodies[j]) = <<>>

InSeq(x, sq) == \E k \in 1..Len(sq) : sq[k] = x

\* C2: once a heading of depth d was processed, no chunk emitted afterwards carries
\* the title of a heading entered before it at a depth greater than d.
C2_ResetOnShallowerHeading ==
    \A i \in 1..Len(chunks) :
      \A j \in 1..emit_hist[i] :
        \A e \in 1..(j - 1) :
          hist[e].depth > hist[j].depth => ~InSeq(hist[e].title, chunks[i].headers)

\* heading j of history h has not been superseded by a later heading of equal or
\* shallower depth
Open(h, j) == \A l \in (j + 1)..Len(h) : h[l].depth > h[j].depth

RECURSIVE OpenTitles(_, _)
OpenTitles(h, j) ==
    IF j > Len(h) THEN <<>>
    ELSE (IF Open(h, j) THEN <<h[j].title>> ELSE <<>>) \o OpenTitles(h, j + 1)

\* C3: the headers of every chunk are, in document order, exactly the titles of the
\* headings opened before it and not superseded by a later heading of equal or
\* shallower depth.
C3_HeadersAreOpenHeadings ==
    \A i \in 1..Len(chunks) :
      chunks[i].headers = OpenTitles(SubSeq(hist, 1, emit_hist[i]), 1)
(***************************************************************************)
(* Properties of index_directory                                           *)
(***************************************************************************)
\* C4: the second of two calls of index_directory on an unchanged tree inserts,
\* deletes and updates no row of documents or chunks, and both calls return
\* processed_files equal to the number of discovered files.
C4_SecondRunChangesNothing ==
    ix_call = 2 =>
        /\ db_writes = ix_snap.writes
        /\ db_docs = ix_snap.docs
        /\ db_chunks = ix_snap.chunks
        /\ ix_snap.processed = Len(Discovered)
        /\ ix_pc = "done" => ix_processed = Len(Discovered)

\* the second call returned Ok over a tree of MaxFiles files which the first call
\* had to write
C4_Witness ==
    /\ ix_call = 2
    /\ ix_pc = "done"
    /\ Len(Discovered) = MaxFiles
    /\ ix_snap.writes > 0
    /\ db_chunks # {}

\* the rows of the chunks of document d, as the sequence of their contents by id
RowsOf(d) == {c \in db_chunks : c.doc_id = d.id}

RECURSIVE ContentsById(_)
ContentsById(rows) ==
    IF rows = {} THEN <<>>
    ELSE LET first == CHOOSE c \in rows : \A o \in rows : c.id <= o.id
         IN  <<first.content>> \o ContentsById(rows \ {first})

\* the file text a stored hash was computed from
TextOfHash(hash) == hash[2]

\* C8: at every point during and after index_directory, every document row is
\* visible together with all the chunks of its content, or not at all.
C8_DocumentVisibleWithAllChunks ==
    ix_call >= 1 =>
        \A d \in db_docs : ContentsById(RowsOf(d)) = ChunksOf(TextOfHash(d.hash))
(***************************************************************************)
(* Properties of the incremental update                                    *)
(***************************************************************************)
\* the update got past the embedding step
Embedded == up_pc \in {"tx_delete", "tx_doc", "tx_chunk", "tx_end", "done"}

\* the rows the document at up_path had when the update began, and has now
PreRows == {c \in up_pre.chunks : \E d \in up_pre.docs : d.path = up_path /\ c.doc_id = d.id}
CurRows == {c \in db_chunks : \E d \in db_docs : d.path = up_path /\ c.doc_id = d.id}
NewContents == ChunksOf(disk[up_path])

\* the positions of the new chunks whose content is that of some old row of `rows`
Matches(rows) == {i \in 1..Len(NewContents) : \E o \in rows : o.content = NewContents[i]}
WithEmbedding(rows) == {o \in rows : o.embedding # NULL}

EmbedInputsAre(n) ==
    IF n = 0 THEN embed_calls = <<>>
    ELSE Len(embed_calls) = 1 /\ Len(embed_calls[1]) = n

\* C5 (as stated): with k new chunks matching the content of an old chunk of the
\* document, embed_batch is invoked once with exactly new_chunk_count - k texts, and
\* not at all when that number is 0 (here even granting that the model loads).
C5_EmbedsAllButContentMatches ==
    (Embedded /\ model_ok) =>
        EmbedInputsAre(Len(NewContents) - Cardinality(Matches(PreRows)))

\* C5 (amended): with k new chunks matching the content of an old chunk of the
\* document that has a stored embedding, and the embedding model loading, embed_batch
\* is invoked once with exactly new_chunk_count - k texts, and not at all when that
\* number is 0.
C5_EmbedsAllButMatchesWithEmbedding ==
    (Embedded /\ model_ok) =>
        EmbedInputsAre(Len(NewContents) - Cardinality(Matches(WithEmbedding(PreRows))))

\* C5: an update that reused some embeddings and asked for others
C5_Witness ==
    /\ Embedded
    /\ model_ok
    /\ Matches(WithEmbedding(PreRows)) # {}
    /\ Len(embed_calls) = 1
    /\ Len(embed_calls[1]) < Len(NewContents)

StoredCountIsChunkCount ==
    /\ Cardinality({d \in db_docs : d.path = up_path}) = 1
    /\ Cardinality(CurRows) = Len(NewContents)
    /\ {c.content : c \in CurRows} = {NewContents[i] : i \in 1..Len(NewContents)}

\* C6 (as stated): after an incremental update of a changed file every new chunk
\* whose content equals that of a previously stored chunk of the document is stored
\* with that old chunk's embedding bytes, and the stored chunk count is the number of
\* chunks of the new content.
C6_MatchKeepsOldChunkBytes ==
    up_pc = "done" =>
        /\ \A c \in CurRows : \A o \in PreRows :
              o.content = c.content => c.embedding = o.embedding
        /\ StoredCountIsChunkCount

\* C6 (amended): after an incremental update of a changed file every new chunk whose
\* content equals that of a previously stored chunk of the document that has a stored
\* embedding is stored with that old chunk's embedding bytes, and the stored chunk
\* count is the number of chunks of the new content.
C6_MatchKeepsStoredEmbeddingBytes ==
    up_pc = "done" =>
        /\ \A c \in CurRows : \A o \in WithEmbedding(PreRows) :
              o.content = c.content => c.embedding = o.embedding
        /\ StoredCountIsChunkCount

\* C6: a finished update in which a chunk kept bytes that the model would not give
\* now, next to a chunk embedded afresh
C6_Witness ==
    /\ up_pc = "done"
    /\ \E c \in CurRows : \E o \in WithEmbedding(PreRows) :
          o.content = c.content /\ c.embedding = o.embedding
                                /\ c.embedding # EmbedBytes(c.content)
    /\ \E c \in CurRows : c.embedding = EmbedBytes(c.content)

\* C7: as long as the transaction of an incremental update has not committed, and
\* after any of its statements failed, the Store is what it was before the update,
\* and at no time does the document have old and new chunks together.
C7_FailedUpdateLeavesStore ==
    /\ up_pc \in {"tx_delete", "tx_doc", "tx_chunk", "tx_end", "failed"} =>
          /\ db_docs = up_pre.docs
          /\ db_chunks = up_pre.chunks
    /\ up_pc # "idle" => (CurRows = PreRows \/ CurRows \cap PreRows = {})
    /\ up_pc = "done" => \A c \in CurRows : c.doc_id = up_doc_id

\* C7: the insert of a chunk failed after the old document was deleted and a new
\* chunk inserted in the transaction
C7_Witness ==
    /\ up_pc = "failed"
    /\ up_i >= 1
    /\ up_i < Len(up_chunks)
    /\ PreRows # {}
    /\ tx_chunks # db_chunks

(***************************************************************************)
(* Properties of the watcher                                               *)
(***************************************************************************)
\* every spawned check thread has finished
Quiescent == \A i \in 1..Len(w_thr) : w_thr[i].pc = "end"

\* all the events so far fall in one debounce window
OneWindow == w_events # <<>> /\ w_events[Len(w_events)] - w_events[1] < DebounceMs

\* C9: N >= 1 create/modify events for one path within one debounce window, followed
\* by no further event, make the watcher dispatch exactly one incremental update,
\* however the check threads are scheduled.
C9_OneDispatchPerWindow ==
    (Quiescent /\ OneWindow) => w_dispatched = 1

StoreReflects(path) ==
    \E d \in db_docs : d.path = path /\ d.hash = Sha256(disk[path])

\* C10: once the watcher is quiescent (and no update failed) the Store holds the
\* final contents of every file an event was handled for, also when an event came
\* while an earlier update of the path was running.
C10_QuiescentStoreReflectsFile ==
    (Quiescent /\ faults = 0) =>
        \A i \in 1..Len(w_thr) : StoreReflects(w_thr[i].path)

(***************************************************************************)
(* Properties of the schema and of cleanup_ghost_data                      *)
(***************************************************************************)
NoOrphanChunk == \A c \in db_chunks : \E d \in db_docs : d.id = c.doc_id
NoOrphanEntry == \A f \in db_fts : \E c \in db_chunks : c.id = f.rowid

\* C11: when cleanup_ghost_data has returned Ok after a file was deleted on disk, no
\* document row has that path, no chunk row is left without its document, no
\* chunks_fts entry is left without its chunk, and the count returned is the number
\* of document rows removed.
C11_CleanupRemovesGhosts ==
    (cg_pc = "done" /\ cg_quiet >= 1) =>
        /\ \A d \in db_docs : d.path \notin cg_pre.absent
        /\ NoOrphanChunk
        /\ NoOrphanEntry
        /\ cg_deleted = cg_pre.ndocs - Cardinality(db_docs)

\* C11: a call that removed a ghost document with its chunks and kept another one
C11_Witness ==
    /\ cg_pc = "done"
    /\ cg_quiet >= 1
    /\ cg_deleted >= 1
    /\ cg_pre.nchunks > Cardinality(db_chunks)
    /\ db_docs # {}

\* C12: a call of cleanup_ghost_data right after one that returned Ok, with no
\* statement and no filesystem change since that one began, deletes nothing: at each
\* of its steps documents, chunks and chunks_fts stay as they are and its count stays 0.
C12_SecondCleanupIdle ==
    [][(cg_pc = "loop" /\ cg_quiet >= 1) =>
          /\ db_docs' = db_docs
          /\ db_chunks' = db_chunks
          /\ db_fts' = db_fts
          /\ cg_deleted' = 0]_vars

\* C12: a second call returned, after a first one that had a ghost to remove
C12_Witness ==
    /\ cg_pc = "done"
    /\ cg_quiet >= 2
    /\ cg_pre.absent # {}
    /\ next_doc_id - 1 > Cardinality(db_docs)
    /\ db_docs # {}

\* C13: a step that deletes a collection removes exactly the documents of that
\* collection, and every step that removes documents removes exactly the chunks of
\* those documents and exactly the chunks_fts entries of those chunks; the rows of
\* the other collections and documents stay.
C13_CascadeStrictlyDownward ==
    [][/\ \A c \in db_collections \ db_collections' :
             db_docs' = {d \in db_docs : d.collection_id # c}
       /\ (db_docs' # db_docs /\ db_docs' \subseteq db_docs) =>
             /\ db_chunks' = {c \in db_chunks : \E d \in db_docs' : d.id = c.doc_id}
             /\ db_fts' = {f \in db_fts : \E c \in db_chunks' : c.id = f.rowid}]_vars

\* C13: a collection was deleted with a document and its chunks, and a chunk of the
\* other collection is still there
C13_Witness ==
    /\ st_last.op = "delete_collection"
    /\ st_last.cascaded >= 1
    /\ db_chunks # {}
    /\ db_fts # {}

\* C14: in every state of the Store the rowids of chunks_fts are the ids of chunks,
\* and each entry has the content and the metadata of its chunk.
C14_FtsMirrorsChunks ==
    /\ {f.rowid : f \in db_fts} = {c.id : c \in db_chunks}
    /\ Cardinality(db_fts) = Cardinality(db_chunks)
    /\ \A f \in db_fts : \A c \in db_chunks :
          f.rowid = c.id => (f.content = c.content /\ f.metadata = c.metadata)

\* C14: a chunk was inserted and updated and is indexed, and another was deleted
C14_Witness ==
    /\ \E f \in db_fts : f.content = UpdatedChunk.content /\ f.metadata = UpdatedChunk.metadata
    /\ st_last.op = "delete_chunk"

(***************************************************************************)
(* Line spans of the chunks                                                *)
(***************************************************************************)
\* C15: every chunk emitted by the Markdown chunker, text or code, has
\* 1 <= start_line <= end_line.
C15_LineSpanOrdered ==
    \A i \in 1..Len(chunks) :
        1 <= chunks[i].start_line /\ chunks[i].start_line <= chunks[i].end_line

(***************************************************************************)
(* Properties of the search                                                *)
(***************************************************************************)
Hits == sr_result.hits
Returned == sr_pc \in {"done", "done_fallback", "done_embed_failed"}

\* the chunk is among the n best matches by rank
InTop(id, n) ==
    /\ id \in DOMAIN sr_rows
    /\ Cardinality({j \in DOMAIN sr_rows : sr_rows[j].rank < sr_rows[id].rank}) < n

NonIncreasing(hits) == \A i, j \in 1..Len(hits) : i < j => hits[i].score >= hits[j].score

\* C16: hybrid_search_full returns at most limit results, each one of the top 3*limit
\* BM25 candidates with its hybrid score, in order of non-increasing score; with no
\* BM25 candidate it returns the empty list.
C16_HybridTopLimit ==
    sr_pc = "done" =>
        /\ sr_result.ok
        /\ Len(Hits) <= sr_limit
        /\ \A i \in 1..Len(Hits) :
              /\ InTop(Hits[i].chunk_id, 3 * sr_limit)
              /\ Hits[i].score = HybridScore(sr_rows[Hits[i].chunk_id])
        /\ \A i, j \in 1..Len(Hits) : i # j => Hits[i].chunk_id # Hits[j].chunk_id
        /\ NonIncreasing(Hits)
        /\ (sr_rows = <<>> => Hits = <<>>)

\* C16: a query with more matches than candidates, and one whose second BM25
\* candidate came out first
C16_Witness ==
    /\ sr_pc = "done"
    /\ sr_limit >= 2
    /\ Len(Hits) = sr_limit
    /\ Hits[1].chunk_id = bm25_results[2].chunk_id
    /\ Hits[1].score > Hits[2].score

\* C17: results with equal score are in order of ascending chunk_id.
C17_TiesByChunkId ==
    (Returned /\ sr_result.ok) =>
        \A i, j \in 1..Len(Hits) :
            (i < j /\ Hits[i].score = Hits[j].score) => Hits[i].chunk_id < Hits[j].chunk_id

\* C18: with the embedding backend unavailable search_hybrid returns at most limit
\* FTS candidates, each with score = 1/(1+|rank|), a value in (0,1], in order of
\* descending score.
C18_FallbackNormalized ==
    sr_pc = "done_fallback" =>
        /\ sr_result.ok
        /\ Len(Hits) <= sr_limit
        /\ \A i \in 1..Len(Hits) :
              /\ Hits[i].score = Bm25Normalized(sr_rows[Hits[i].chunk_id].rank)
              /\ 0 < Hits[i].score
              /\ Hits[i].score <= Scale
        /\ NonIncreasing(Hits)

\* C19: search_hybrid returns a list and not an error; when embedding the query fails
\* the list is that of the BM25 results.
C19_AlwaysReturnsList ==
    Returned =>
        /\ sr_result.ok
        /\ sr_pc = "done_embed_failed" =>
              {Hits[i].chunk_id : i \in 1..Len(Hits)} =
              {bm25_results[i].chunk_id :
                  i \in 1..(IF sr_limit < Len(bm25_results) THEN sr_limit
                            ELSE Len(bm25_results))}

(***************************************************************************)
(* Properties of the errors of index_directory                             *)
(***************************************************************************)
\* errors: Vec::new() in the IndexProgress that index_directory returns
IndexProgressErrors == {}

\* C20: a file that cannot be read does not fail index_directory: the call fails only
\* when a Store statement did, and the IndexProgress it returns lists in errors the
\* files that could not be read.
C20_FileFailureIsLocal ==
    /\ (ix_pc = "failed" /\ ix_call = 1) => faults > 0
    /\ (ix_pc = "done" /\ ix_call = 1) =>
           \A p \in Paths : ~Readable(disk[p]) => p \in IndexProgressErrors

(***************************************************************************)
(* Properties of the index_directory pipeline                              *)
(***************************************************************************)
\* the files of the walk that the producer loop has taken up
TakenUp == {p \in Paths : disk[p] # "absent" /\ \A i \in 1..Len(ix_files) : ix_files[i] # p}

\* C21: once index_directory has taken up a file whose extraction fails, the Store
\* holds a document row for its path with status 'error' or 'scanned_pdf' and no chunk.
C21_FailedExtractionRecorded ==
    \A p \in TakenUp :
        (ix_call = 1 /\ ~Readable(disk[p])) =>
            \E d \in db_docs :
                /\ d.path = p
                /\ d.status \in {"error", "scanned_pdf"}
                /\ RowsOf(d) = {}

\* C22: the chunk jobs queued between producer and consumer never exceed a fixed
\* capacity, whatever the number of files (taken here as one batch of the consumer):
\* a producer ahead of the consumer blocks on send.
C22_QueueWithinCapacity == Len(ix_chan) <= BatchSize

\* s is t with some elements left out
IsSubSeq(s, t) ==
    \E f \in [1..Len(s) -> 1..Len(t)] :
        /\ \A i, j \in 1..Len(s) : i < j => f[i] < f[j]
        /\ \A i \in 1..Len(s) : t[f[i]] = s[i]

C24_CompletedStoreMatchesHash ==
    (ix_call >= 1 /\ ix_pc = "done") =>
        \A d \in db_docs : ContentsById(RowsOf(d)) = ChunksOf(TextOfHash(d.hash))

WordOfLeBytes(b0, b1, b2, b3) == <<b2 + (256 * b3), b0 + (256 * b1)>>

\* C26: f32_vec_to_bytes(v) is 4 * len(v) bytes, the little-endian words of v in
\* order, and bytes_to_f32_vec gives back v bit for bit.
C26_RoundTripBitwise ==
    /\ cd_pc \in {"serialized", "done"} =>
          /\ Len(cd_bytes) = 4 * Len(cd_vec)
          /\ \A i \in 1..Len(cd_bytes) : cd_bytes[i] \in 0..255
          /\ \A k \in 1..Len(cd_vec) :
                WordOfLeBytes(cd_bytes[(4 * k) - 3], cd_bytes[(4 * k) - 2],
                              cd_bytes[(4 * k) - 1], cd_bytes[4 * k]) = cd_vec[k]
    /\ cd_pc = "done" => cd_back = cd_vec

\* C26: a vector of different values, one of four different bytes, has gone
\* through both conversions
C26_Witness ==
    /\ cd_pc = "done"
    /\ Len(cd_vec) = 2
    /\ cd_vec[1] = <<49260, 52429>>
    /\ cd_vec[2] = <<32704, 1>>
    /\ cd_bytes = <<205, 204, 108, 192, 1, 0, 192, 127>>

(***************************************************************************)
(* Properties of get_chunk_context                                         *)
(***************************************************************************)
CtxN == IF cx_args.context_size = <<>> THEN DefaultContextSize ELSE cx_args.context_size[1]

CtxMatches == {i \in 1..Len(all_chunks) : all_chunks[i].start_line = cx_args.start_line}

\* C27: with i the first chunk of the document, in start_line order, that starts at
\* start_line, get_chunk_context returns the chunks from max(first, i - n) to
\* min(last, i + n): at most 2n + 1 chunks of that document, the target among them;
\* with no such chunk it returns all chunks of the document.
C27_ContextSlice ==
    cx_pc = "done" =>
        /\ {c.chunk_id : c \in {all_chunks[i] : i \in 1..Len(all_chunks)}} =
               {c.chunk_id : c \in {r \in cx_store : r.doc_id = cx_args.doc_id}}
        /\ \A i, j \in 1..Len(all_chunks) :
               i < j => all_chunks[i].start_line <= all_chunks[j].start_line
        /\ \A k \in 1..Len(cx_result) : cx_result[k].doc_id = cx_args.doc_id
        /\ IF CtxMatches = {}
           THEN cx_result = all_chunks
           ELSE LET i == CHOOSE m \in CtxMatches : \A o \in CtxMatches : m <= o
                    lo == IF i - CtxN < 1 THEN 1 ELSE i - CtxN
                    hi == IF i + CtxN > Len(all_chunks) THEN Len(all_chunks) ELSE i + CtxN
                IN  /\ Len(cx_result) = hi - lo + 1
                    /\ \A k \in 1..Len(cx_result) : cx_result[k] = all_chunks[lo + k - 1]
                    /\ Len(cx_result) <= (2 * CtxN) + 1
                    /\ cx_result[i - lo + 1] = all_chunks[i]

\* C27: the target is the first of three chunks of a document in a Store that holds
\* another document too, and the context of one chunk each side leaves the third out
C27_Witness ==
    /\ cx_pc = "done"
    /\ CtxN = 1
    /\ Len(all_chunks) = 3
    /\ all_chunks[1].start_line = cx_args.start_line
    /\ Len(cx_result) = 2
    /\ \E r \in cx_store : r.doc_id # cx_args.doc_id

(***************************************************************************)
(* Properties of the hybrid score                                          *)
(***************************************************************************)
\* the cosine of a candidate with the query, in thousandths; none without embedding
Cosine(id) == IF sr_rows[id].emb = NULL THEN 0 ELSE sr_rows[id].emb[1]

C29_WeightsSumToOne ==
    /\ VECTOR_WEIGHT + BM25_WEIGHT = 10
    /\ VECTOR_WEIGHT > BM25_WEIGHT
    /\ sr_pc = "done" =>
          \A j \in 1..Len(Hits) :
              Hits[j].score = (VECTOR_WEIGHT * Cosine(Hits[j].chunk_id))
                              + (BM25_WEIGHT * Bm25Normalized(sr_rows[Hits[j].chunk_id].rank))

\* C29: a candidate of worse BM25 rank and good cosine came out before one of better
\* rank without embedding
C29_Witness ==
    /\ sr_pc = "done"
    /\ Len(Hits) = 2
    /\ sr_rows[Hits[1].chunk_id].rank > sr_rows[Hits[2].chunk_id].rank
    /\ Cosine(Hits[1].chunk_id) > Cosine(Hits[2].chunk_id)
    /\ Hits[1].score > Hits[2].score

(***************************************************************************)
(* Properties of DebounceState                                             *)
(***************************************************************************)
\* C30: should_process(path) returns true exactly when the map holds an entry for
\* path of age >= debounce_delay, and then removes it; otherwise it returns false
\* and leaves the map as it is.
C30_ShouldProcessOnlyRemoves ==
    [][\A i \in DOMAIN w_thr :
          (w_thr[i].pc = "sleep" /\ w_thr'[i].pc # "sleep") =>
              LET path == w_thr[i].path
                  due == /\ pending_files[path] # NoTime
                         /\ w_now - pending_files[path] >= DebounceMs
              IN  /\ (w_thr'[i].pc = "update") = due
                  /\ pending_files' = IF due THEN [pending_files EXCEPT ![path] = NoTime]
                                      ELSE pending_files
      ]_vars

(***************************************************************************)
(* Properties of the watcher's Remove handling                             *)
(***************************************************************************)
\* the check thread i was spawned before a Remove event of its path was handled
\* and no create/modify event of the path has been handled since
RemovedAfter(i) ==
    \E j \in DOMAIN w_thr :
        /\ j > i
        /\ w_thr[j].kind = "remove"
        /\ w_thr[j].path = w_thr[i].path
        /\ \A k \in DOMAIN w_thr :
              (k > j /\ w_thr[k].path = w_thr[i].path) => w_thr[k].kind = "remove"

\* C31: a Remove event clears the path's debounce entry and dispatches the removal
\* at once, and no debounce check scheduled by a create/modify event that came
\* before the Remove dispatches an incremental update for the path afterwards,
\* however the checks are scheduled.
C31_NoDispatchAfterRemove ==
    [][\A i \in DOMAIN w_thr :
          (w_thr[i].pc = "sleep" /\ RemovedAfter(i)) => w_thr'[i].pc # "update"
      ]_vars

\* C32: an incremental update invoked for a path that is no longer on disk removes
\* the path's document and chunks from the Store (here: update_file_sync).
C32_MissingPathIsRemoved ==
    [][\A i \in DOMAIN w_thr :
          (/\ w_thr[i].pc = "update"
           /\ w_thr'[i].pc # "update"
           /\ disk[w_thr[i].path] = "absent") =>
              \A d \in db_docs' : d.path # w_thr[i].path
      ]_vars

\* C39: when the last event handled for a path is a Remove and every spawned
\* worker has finished, the Store holds no document and no chunk of the path, also
\* when an incremental update of the path was running as the Remove arrived.
C39_RemovedPathLeavesStore ==
    (/\ Quiescent
     /\ w_thr # <<>>
     /\ w_thr[Len(w_thr)].kind = "remove") =>
        /\ \A d \in db_docs : d.path # w_thr[Len(w_thr)].path
        /\ \A c \in db_chunks : \E d \in db_docs : d.id = c.doc_id

(***************************************************************************)
(* Properties of the early returns of the incremental update               *)
(***************************************************************************)
RouteReturned == rt_pc \in {"ignored", "unchanged", "removed", "done", "failed"}

\* the file lies under the folder: the folder, then a separator, then the rest
Under(path, folder) ==
    /\ starts_with(path, folder)
    /\ Len(path) > Len(folder)
    /\ path[Len(folder) + 1] = "/"

\* (a) the hash stored for (collection, path) is the hash of the file
SameHashStored ==
    /\ disk[rt_path] # "absent"
    /\ \E d \in rt_pre.docs : d.path = rt_path /\ d.hash = Sha256(disk[rt_path])

\* (b) no document of the path, and the path under no collection folder
OutsideCollections ==
    /\ \A d \in rt_pre.docs : d.path # rt_path
    /\ ~(rt_folder # <<>> /\ Under(rt_path, rt_folder[1]))

\* C33: an incremental update leaves documents and chunks as they were and calls
\* no embedding when (a) the hash stored for (collection, path) is the file's
\* hash, (b) the path has no document and lies under no collection folder, or
\* (c) the extension is not md, markdown or pdf.
C33_IgnoredUpdateChangesNothing ==
    (RouteReturned /\ (SameHashStored \/ OutsideCollections \/ ~IsDocument(rt_path))) =>
        /\ db_docs = rt_pre.docs
        /\ db_chunks = rt_pre.chunks
        /\ rt_embeds = 0

(***************************************************************************)
(* Termination of index_directory                                          *)
(***************************************************************************)
IndexReturned == ix_pc \in {"done", "failed"}

\* the chunk rows written for documents inserted by index_directory
NewChunkRowsStored == {c \in db_chunks : c.doc_id > MaxFiles}

Surviving(text) ==
    SelectSeq(SplitParas(text), LAMBDA para : StrLen(Trim(para)) >= 20)

\* C35: chunk_pdf_text returns at least one chunk for any extracted text:
\* paragraphs shorter than 20 characters are dropped, and when none is left it
\* emits one chunk of type pdf that covers the whole text.
C35_PdfTextGivesAChunk ==
    (pdf_pc = "done" /\ pdf_status.tag = "Success") =>
        /\ Len(pdf_doc.chunks) >= 1
        /\ \A k \in DOMAIN pdf_doc.chunks : pdf_doc.chunks[k].chunk_type = "pdf"
        /\ IF Surviving(pdf_status.text) = <<>>
           THEN pdf_doc.chunks = <<PdfChunk(pdf_status.text, 1, pdf_status.page_count)>>
           ELSE [k \in DOMAIN pdf_doc.chunks |-> pdf_doc.chunks[k].content] =
                    [k \in DOMAIN Surviving(pdf_status.text) |->
                        Trim(Surviving(pdf_status.text)[k])]

\* C37: a scanned PDF recovered by OCR is ingested as a success: the document gets
\* the status normal and the chunks built from the OCR text.
C37_OcrSuccessIsSuccess ==
    (pdf_pc = "done" /\ pdf_status.tag = "OcrSuccess") =>
        /\ pdf_doc.status = "normal"
        /\ pdf_doc.content = pdf_status.text
        /\ pdf_doc.chunks = chunk_pdf_text(pdf_status.text, pdf_status.page_count)

(***************************************************************************)
(* Sizes of the chunks of the Markdown chunker                             *)
(***************************************************************************)
\* the step is one of the flush points with nothing else pushed into the buffer:
\* a heading starts, a code block starts, the input ends
AtFlushPoint == ck_pc = "top" /\ ck_pc' \in {"heading", "code", "done"}

OwnEmbedding(contents, i, m) ==
    LET j == Len(NeedsEmbedding(SubSeq(contents, 1, i), old_embeddings))
    IN  IF Sha256(contents[i]) \in DOMAIN old_embeddings
        THEN old_embeddings[Sha256(contents[i])]
        ELSE IF j <= m THEN EmbedBytes(contents[i]) ELSE NULL

\* the vectors embed_batch returns for the chunks that need one
FreshVectors == [j \in 1..Len(chunks_needing_embeddings) |-> Embed(chunks_needing_embeddings[j])]

IsWebClip(d) == \E url \in ClipUrls : d.path = pseudo_path(url)

\* C40: a turn of the loop of cleanup_ghost_data leaves every document whose file
\* exists and every web-clip document in the Store, together with all its chunks.
C40_CleanupKeepsFilesAndClips ==
    [][cg_pc = "loop" =>
          \A d \in db_docs :
              (IsWebClip(d) \/ PathExists(d.path)) =>
                  /\ d \in db_docs'
                  /\ ChunksOfDocs(db_chunks', {d}) = ChunksOfDocs(db_chunks, {d})]_vars

====
